---- MODULE Spec2Model ----
(***************************************************************************)
(* Layout optimizer of Verible (common/formatting/layout_optimizer.cc):    *)
(* the piecewise-linear layout-function algebra (Line, Indent,             *)
(* Juxtaposition, Stack, Choice, Wrap), the driver                         *)
(* OptimizeTokenPartitionTree and the TreeReconstructor.                   *)
(*                                                                         *)
(* Costs (float intercepts in the code) are modelled by integers: every    *)
(* value the model produces is an integer far below 2^24, where float      *)
(* arithmetic is exact.                                                    *)
(***************************************************************************)
EXTENDS Integers, Sequences, FiniteSets, TLC

VARIABLES
  style,    \* BasicFormatStyle handed to the factory / the driver
  ftokens,  \* the token-spacing store (PreFormatToken of every token)
  session,  \* what a factory session builds its operands from
  stack,    \* layout functions held by the caller, last one on top
  nops,     \* combinator applications made in the session
  last,     \* the last factory call: its name, arguments and result
  status,   \* "ok", or "fatal" once a CHECK / LOG(FATAL) has fired
  node,     \* the partition tree handed to OptimizeTokenPartitionTree
  run       \* locals of the call under way: of the driver, or of a sweep

vars == <<style, ftokens, session, stack, nops, last, status, node, run>>

---------------------------------------------------------------------------
(* Bounds of the model *)

\* style of the small model (BasicFormatStyle fields used by the optimizer)
ColumnLimit == 6
OverColumnLimitPenalty == 3
LineBreakPenalty == 2
WrapSpaces == 2

\* a factory session: total number of leaves (segments of hand-written
\* functions) among its operands, and number of combinator applications
MaxLeaves == 3
MaxOps == 2
\* hand-written layout functions: the column of their second knot
LitKnot == 3
\* tokens of a partition tree handed to the driver
MaxTokens == 3
\* levels of partitions above the leaves of such a tree
MaxDepth == 2
\* largest indentation of the root partition
MaxIndentation == 1
\* calls of OptimizeTokenPartitionTree on one tree
MaxPasses == 2
\* columns 0..MaxColumn are the ones cost curves are compared at
MaxColumn == 24

\* Largest possible column value, used as infinity.
kInfinity == 2147483647

SmallStyle ==
  [column_limit |-> ColumnLimit,
   over_column_limit_penalty |-> OverColumnLimitPenalty,
   line_break_penalty |-> LineBreakPenalty,
   wrap_spaces |-> WrapSpaces]

\* style of the test fixtures
TestStyle ==
  [column_limit |-> 40,
   over_column_limit_penalty |-> 100,
   line_break_penalty |-> 2,
   wrap_spaces |-> 4]

---------------------------------------------------------------------------
(* Generic helpers *)

Max(a, b) == IF a >= b THEN a ELSE b

Min(a, b) == IF a <= b THEN a ELSE b

RECURSIVE SumSeq(_)
SumSeq(s) == IF s = <<>> THEN 0 ELSE Head(s) + SumSeq(Tail(s))

RECURSIVE Flatten(_)
Flatten(ss) == IF ss = <<>> THEN <<>> ELSE Head(ss) \o Flatten(Tail(ss))

\* the quotient a / b rounded towards zero, b > 0
FloorDiv(a, b) == a \div b

\* std::ceil of the quotient a / b, b > 0
CeilDiv(a, b) == -((-a) \div b)

---------------------------------------------------------------------------
(* Tokens and unwrapped lines *)

Undecided == "Undecided"
MustAppend == "MustAppend"
MustWrap == "MustWrap"

\* PreFormatToken: text length and the spacing decision before it
Token(len, spaces, decision) ==
  [len |-> len, spaces_required |-> spaces, break_decision |-> decision]

\* UnwrappedLine: tokens tbegin .. tend-1 of ftokens
UnwrappedLine(indentation, tbegin, tend, policy) ==
  [indentation |-> indentation, tbegin |-> tbegin, tend |-> tend,
   policy |-> policy]

---------------------------------------------------------------------------
(* Layout items and layout trees *)

kLine == "line"
kJuxtaposition == "juxtaposition"
kStack == "stack"

\* LayoutTree node: a LayoutItem and its children
LayoutTree(type, indentation, spaces_before, must_wrap, tbegin, tend, children) ==
  [type |-> type, indentation |-> indentation,
   spaces_before |-> spaces_before, must_wrap |-> must_wrap,
   tbegin |-> tbegin, tend |-> tend, children |-> children]

\* LayoutItem(uwline): a kLine item taking spacing and wrapping from the
\* first token of the line
LineItem(uwline) ==
  LET nonempty == uwline.tbegin < uwline.tend
  IN LayoutTree(kLine, 0,
       IF nonempty THEN ftokens[uwline.tbegin].spaces_required ELSE 0,
       IF nonempty THEN ftokens[uwline.tbegin].break_decision = MustWrap
                   ELSE FALSE,
       uwline.tbegin, uwline.tend, <<>>)

\* LayoutItem(type, spacing, must_wrap): a composite (or token-less) item
CompositeItem(type, spaces_before, must_wrap) ==
  LayoutTree(type, 0, spaces_before, must_wrap, 0, 0, <<>>)

\* LayoutItem::Length(): rendered width of the line's tokens
Length(item) ==
  IF item.tbegin >= item.tend THEN 0
  ELSE SumSeq([i \in 1..(item.tend - item.tbegin) |->
                 ftokens[item.tbegin + i - 1].spaces_required
                 + ftokens[item.tbegin + i - 1].len])
       - ftokens[item.tbegin].spaces_required

\* Line leaves of a layout tree, left to right
RECURSIVE Leaves(_)
Leaves(t) ==
  IF t.type = kLine THEN <<t>>
  ELSE Flatten([i \in 1..Len(t.children) |-> Leaves(t.children[i])])

---------------------------------------------------------------------------
(* Layout functions *)

\* LayoutFunctionSegment
Segment(column, layout, span, intercept, gradient) ==
  [column |-> column, layout |-> layout, span |-> span,
   intercept |-> intercept, gradient |-> gradient]

\* LayoutFunctionSegment::CostAt
CostAt(segment, column) ==
  segment.intercept + segment.gradient * (column - segment.column)

\* std::lower_bound over segments first .. first+count-1 with the predicate
\* s.column <= column; returns the index of the partition point
RECURSIVE LowerBound(_, _, _, _)
LowerBound(lf, first, count, column) ==
  IF count <= 0 THEN first
  ELSE LET step == count \div 2
           it == first + step
       IN IF lf[it].column <= column
          THEN LowerBound(lf, it + 1, count - (step + 1), column)
          ELSE LowerBound(lf, first, step, column)

\* LayoutFunction::AtOrToTheLeftOf: index of the segment (1-based); end() is
\* Len(lf) + 1; 0 stands for the failed CHECK_NE(it, begin())
AtOrToTheLeftOf(lf, column) ==
  IF lf = <<>> THEN Len(lf) + 1
  ELSE LowerBound(lf, 1, Len(lf), column) - 1

\* LayoutFunction::const_iterator::MoveToKnotAtOrToTheLeftOf
MoveToKnotAtOrToTheLeftOf(lf, column) == AtOrToTheLeftOf(lf, column)

\* LayoutFunction::MustWrap
MustWrapLF(lf) == IF lf = <<>> THEN FALSE ELSE lf[1].layout.must_wrap

\* cost of a layout function at a column, through the segment lookup
CostAtLF(lf, column) == CostAt(lf[AtOrToTheLeftOf(lf, column)], column)

---------------------------------------------------------------------------
(* Combinators of LayoutFunctionFactory *)

\* what a layout tree holds in place of a child once a CHECK of
\* AdoptLayoutAndFlattenIfSameType has failed
CheckFailure == LayoutTree("check_failed", 0, 0, FALSE, 0, 0, <<>>)

\* a CHECK failed while the layout tree t was built
RECURSIVE CheckFailed(_)
CheckFailed(t) ==
  \/ t.type = "check_failed"
  \/ \E i \in 1..Len(t.children) : CheckFailed(t.children[i])

\* an adoption that never flattens: the source becomes one child
AdoptLayout(source, destination) ==
  [destination EXCEPT !.children = Append(@, source)]

\* AdoptLayoutAndFlattenIfSameType: the children added to 'destination'
AdoptLayoutAndFlattenIfSameType(source, destination) ==
  IF source.children # <<>> /\ source.type = destination.type
     /\ source.indentation = 0
  THEN IF /\ source.must_wrap = source.children[1].must_wrap
          /\ source.spaces_before = source.children[1].spaces_before
       THEN [destination EXCEPT !.children = @ \o source.children]
       ELSE [destination EXCEPT !.children = Append(@, CheckFailure)]
  ELSE [destination EXCEPT !.children = Append(@, source)]

\* a CHECK failed while the layout function lf was built
Aborted(lf) == \E i \in 1..Len(lf) : CheckFailed(lf[i].layout)

\* Line with the fitting case extended to a line exactly as wide as the limit
LineFitsAtLimit(uwline) ==
  LET layout == LineItem(uwline)
      span == Length(layout)
  IN IF span <= style.column_limit
     THEN << Segment(0, layout, span, 0, 0),
             Segment(style.column_limit - span, layout, span, 0,
                     style.over_column_limit_penalty) >>
     ELSE << Segment(0, layout, span,
                     (span - style.column_limit)
                       * style.over_column_limit_penalty,
                     style.over_column_limit_penalty) >>

\* LayoutFunctionFactory::Line
Line(uwline) ==
  LET layout == LineItem(uwline)
      span == Length(layout)
  IN IF span < style.column_limit
     THEN << Segment(0, layout, span, 0, 0),
             Segment(style.column_limit - span, layout, span, 0,
                     style.over_column_limit_penalty) >>
     ELSE << Segment(0, layout, span,
                     (span - style.column_limit)
                       * style.over_column_limit_penalty,
                     style.over_column_limit_penalty) >>

\* loop of LayoutFunctionFactory::Indent, from the segment at index 'segment'
RECURSIVE IndentLoop(_, _, _, _, _)
IndentLoop(lf, indent, indent_column, column, segment) ==
  LET columns_over_limit == column - style.column_limit
      new_intercept ==
        CostAt(lf[segment], column)
        - style.over_column_limit_penalty * Max(columns_over_limit, 0)
      new_gradient ==
        lf[segment].gradient
        - style.over_column_limit_penalty
            * (IF columns_over_limit >= 0 THEN 1 ELSE 0)
      new_layout ==
        [lf[segment].layout EXCEPT !.indentation = @ + indent]
      new_span == indent + lf[segment].span
      new_segment ==
        Segment(indent_column, new_layout, new_span, new_intercept,
                new_gradient)
  IN IF segment + 1 > Len(lf) THEN <<new_segment>>
     ELSE <<new_segment>>
          \o IndentLoop(lf, indent, lf[segment + 1].column - indent,
                        lf[segment + 1].column, segment + 1)

\* an Indent that starts at the first segment, not at the one under 'indent'
IndentFromBegin(lf, indent) == IndentLoop(lf, indent, 0, indent, 1)

\* LayoutFunctionFactory::Indent (lf non-empty, indent >= 0)
Indent(lf, indent) ==
  IndentLoop(lf, indent, 0, indent, AtOrToTheLeftOf(lf, indent))

\* one iteration of the loop of Juxtaposition(left, right) and the rest
RECURSIVE JuxtapositionLoop(_, _, _, _, _, _)
JuxtapositionLoop(left, right, segment_l, segment_r, column_l, column_r) ==
  LET columns_over_limit == column_r - style.column_limit
      new_intercept ==
        CostAt(left[segment_l], column_l) + CostAt(right[segment_r], column_r)
        - style.over_column_limit_penalty * Max(columns_over_limit, 0)
      new_gradient ==
        left[segment_l].gradient + right[segment_r].gradient
        - (IF columns_over_limit >= 0
           THEN style.over_column_limit_penalty ELSE 0)
      layout_l == left[segment_l].layout
      layout_r == right[segment_r].layout
      new_layout ==
        AdoptLayoutAndFlattenIfSameType(layout_r,
          AdoptLayoutAndFlattenIfSameType(layout_l,
            CompositeItem(kJuxtaposition, layout_l.spaces_before,
                          layout_l.must_wrap)))
      new_span ==
        left[segment_l].span + right[segment_r].span + layout_r.spaces_before
      new_segment ==
        Segment(column_l, new_layout, new_span, new_intercept, new_gradient)
      next_segment_l == segment_l + 1
      l_end == next_segment_l > Len(left)
      next_column_l == IF l_end THEN kInfinity ELSE left[next_segment_l].column
      next_segment_r == segment_r + 1
      r_end == next_segment_r > Len(right)
      next_column_r == IF r_end THEN kInfinity ELSE right[next_segment_r].column
  IN IF l_end /\ r_end THEN <<new_segment>>
     ELSE IF r_end \/ (next_column_l - column_l) <= (next_column_r - column_r)
     THEN LET new_column_r == next_column_l + left[next_segment_l].span
                              + layout_r.spaces_before
          IN <<new_segment>>
             \o JuxtapositionLoop(left, right, next_segment_l,
                                  AtOrToTheLeftOf(right, new_column_r),
                                  next_column_l, new_column_r)
     ELSE <<new_segment>>
          \o JuxtapositionLoop(left, right, segment_l, next_segment_r,
                               next_column_r - left[segment_l].span
                                 - layout_r.spaces_before,
                               next_column_r)

\* a Juxtaposition that puts one column more between left and right
JuxtapositionApart(left, right) ==
  LET column_r == left[1].span + right[1].layout.spaces_before + 1
  IN JuxtapositionLoop(left, right, 1, AtOrToTheLeftOf(right, column_r),
                       0, column_r)

\* LayoutFunctionFactory::Juxtaposition(left, right), both non-empty
Juxtaposition2(left, right) ==
  LET column_r == left[1].span + right[1].layout.spaces_before
  IN JuxtapositionLoop(left, right, 1, AtOrToTheLeftOf(right, column_r),
                       0, column_r)

\* left fold of Juxtaposition(initializer_list) over lfs[from..]
RECURSIVE JuxtapositionFold(_, _, _)
JuxtapositionFold(incremental, lfs, from) ==
  IF from > Len(lfs) THEN incremental
  ELSE JuxtapositionFold(Juxtaposition2(incremental, lfs[from]), lfs, from + 1)

\* a Juxtaposition that has no shortcut for one function: its layouts are
\* adopted into a Juxtaposition node of their own
JuxtapositionAdoptingOne(lfs) ==
  IF lfs = <<>> THEN <<>>
  ELSE IF Len(lfs) = 1
  THEN [i \in 1..Len(lfs[1]) |->
          [lfs[1][i] EXCEPT !.layout =
             AdoptLayoutAndFlattenIfSameType(@,
               CompositeItem(kJuxtaposition, @.spaces_before, @.must_wrap))]]
  ELSE JuxtapositionFold(lfs[1], lfs, 2)

\* LayoutFunctionFactory::Juxtaposition(std::initializer_list<LayoutFunction>)
Juxtaposition(lfs) ==
  IF lfs = <<>> THEN <<>>
  ELSE IF Len(lfs) = 1 THEN lfs[1]
  ELSE JuxtapositionFold(lfs[1], lfs, 2)

\* the next knot of the first function alone
NextKnotOfFirst(lfs, segments, i) ==
  IF segments[1] + 1 > Len(lfs[1]) THEN kInfinity
  ELSE lfs[1][segments[1] + 1].column

\* smallest next knot of the functions whose iterators are at 'segments'
RECURSIVE NextKnot(_, _, _)
NextKnot(lfs, segments, i) ==
  IF i > Len(lfs) THEN kInfinity
  ELSE LET rest == NextKnot(lfs, segments, i + 1)
           column == IF segments[i] + 1 > Len(lfs[i]) THEN kInfinity
                     ELSE lfs[i][segments[i] + 1].column
       IN IF column < rest THEN column ELSE rest

\* the Stack layout adopting the layouts under 'segments', from child i on
RECURSIVE StackAdopt(_, _, _, _)
StackAdopt(lfs, segments, i, layout) ==
  IF i > Len(lfs) THEN layout
  ELSE StackAdopt(lfs, segments, i + 1,
         AdoptLayoutAndFlattenIfSameType(lfs[i][segments[i]].layout, layout))

\* do-while loop of Stack(segments) from current_column on
RECURSIVE StackLoop(_, _, _, _, _)
StackLoop(lfs, spaces_before, break_decision, span, current_column) ==
  LET segments == [i \in 1..Len(lfs) |->
                     MoveToKnotAtOrToTheLeftOf(lfs[i], current_column)]
      line_breaks_penalty == (Len(lfs) - 1) * style.line_break_penalty
      new_segment ==
        Segment(current_column,
                StackAdopt(lfs, segments, 1,
                           CompositeItem(kStack, spaces_before, break_decision)),
                span,
                line_breaks_penalty
                  + SumSeq([i \in 1..Len(lfs) |->
                              CostAt(lfs[i][segments[i]], current_column)]),
                SumSeq([i \in 1..Len(lfs) |-> lfs[i][segments[i]].gradient]))
      next_column == NextKnot(lfs, segments, 1)
  IN IF next_column < kInfinity
     THEN <<new_segment>>
          \o StackLoop(lfs, spaces_before, break_decision, span, next_column)
     ELSE <<new_segment>>

\* LayoutFunctionFactory::Stack(segments): the iterators start at begin()
StackSegments(lfs) ==
  StackLoop(lfs, lfs[1][1].layout.spaces_before, lfs[1][1].layout.must_wrap,
            lfs[Len(lfs)][1].span, 0)

\* LayoutFunctionFactory::Stack(std::initializer_list<LayoutFunction>)
Stack(lfs) ==
  IF lfs = <<>> THEN <<>>
  ELSE IF Len(lfs) = 1 THEN lfs[1]
  ELSE StackSegments(lfs)

\* the comparator handed to std::min_element in Choice: "a before b"
ChoiceLess(a, b, current_column) ==
  IF CostAt(a, current_column) # CostAt(b, current_column)
  THEN CostAt(a, current_column) < CostAt(b, current_column)
  ELSE a.gradient <= b.gradient

\* std::min_element over the segments under the iterators: scans i .. end,
\* 'smallest' being the index of the best function so far
RECURSIVE MinElement(_, _, _, _, _)
MinElement(lfs, segments, current_column, i, smallest) ==
  IF i > Len(lfs) THEN smallest
  ELSE MinElement(lfs, segments, current_column, i + 1,
         IF ChoiceLess(lfs[i][segments[i]], lfs[smallest][segments[smallest]],
                       current_column)
         THEN i ELSE smallest)

\* closest crossover column before next_column, scanning functions i .. end
RECURSIVE NextCrossover(_, _, _, _, _, _)
NextCrossover(lfs, segments, current_column, min, i, next_column) ==
  IF i > Len(lfs) THEN next_column
  ELSE LET segment == lfs[i][segments[i]]
           min_cost_segment == lfs[min][segments[min]]
       IN IF segment.gradient >= min_cost_segment.gradient
          THEN NextCrossover(lfs, segments, current_column, min, i + 1,
                             next_column)
          ELSE LET column ==
                     current_column
                     + CeilDiv(CostAt(segment, current_column)
                                 - CostAt(min_cost_segment, current_column),
                               min_cost_segment.gradient - segment.gradient)
               IN NextCrossover(lfs, segments, current_column, min, i + 1,
                    IF column > current_column /\ column < next_column
                    THEN column ELSE next_column)

\* inner do-while loop of Choice between two knots; yields the segments
\* pushed, the last minimum and the column reached
RECURSIVE ChoiceInner(_, _, _, _, _)
ChoiceInner(lfs, segments, next_knot, current_column, last_min) ==
  LET min == MinElement(lfs, segments, current_column, 2, 1)
      min_it == <<min, segments[min]>>
      min_cost_segment == lfs[min][segments[min]]
      pushed ==
        IF min_it # last_min
        THEN << Segment(current_column, min_cost_segment.layout,
                        min_cost_segment.span,
                        CostAt(min_cost_segment, current_column),
                        min_cost_segment.gradient) >>
        ELSE <<>>
      next_column ==
        NextCrossover(lfs, segments, current_column, min, 1, next_knot)
  IN IF next_column < next_knot
     THEN LET rest == ChoiceInner(lfs, segments, next_knot, next_column, min_it)
          IN [rest EXCEPT !.result = pushed \o @]
     ELSE [result |-> pushed, last_min |-> min_it, column |-> next_column]

\* outer do-while loop of Choice over the knots of all functions
RECURSIVE ChoiceOuter(_, _, _)
ChoiceOuter(lfs, current_column, last_min) ==
  LET segments == [i \in 1..Len(lfs) |->
                     MoveToKnotAtOrToTheLeftOf(lfs[i], current_column)]
      next_knot == NextKnot(lfs, segments, 1)
      inner == ChoiceInner(lfs, segments, next_knot, current_column, last_min)
  IN IF inner.column < kInfinity
     THEN inner.result \o ChoiceOuter(lfs, inner.column, inner.last_min)
     ELSE inner.result

\* LayoutFunctionFactory::Choice(segments): last_min_cost_segment starts as
\* the end() of the first function
ChoiceSegments(lfs) == ChoiceOuter(lfs, 0, <<1, Len(lfs[1]) + 1>>)

\* LayoutFunctionFactory::Choice(std::initializer_list<LayoutFunction>)
Choice(lfs) ==
  IF lfs = <<>> THEN <<>>
  ELSE IF Len(lfs) = 1 THEN lfs[1]
  ELSE ChoiceSegments(lfs)

\* the loop of Wrap: 'incremental' joined with lfs[from..], each next element
\* stacked below when it must wrap, else the cheaper of appended and stacked
RECURSIVE WrapFold(_, _, _)
WrapFold(incremental, lfs, from) ==
  IF from > Len(lfs) THEN incremental
  ELSE WrapFold(
         IF MustWrapLF(lfs[from])
         THEN Stack(<<incremental, lfs[from]>>)
         ELSE Choice(<< Juxtaposition(<<incremental, lfs[from]>>),
                        Stack(<<incremental, lfs[from]>>) >>),
         lfs, from + 1)

\* LayoutFunctionFactory::Wrap
Wrap(lfs) ==
  IF lfs = <<>> THEN <<>>
  ELSE WrapFold(lfs[1], lfs, 2)

---------------------------------------------------------------------------
(* OptimizeTokenPartitionTree: from a partition tree to a layout function *)

kOptimalFunctionCallLayout == "optimal_function_call_layout"
kFitOnLineElseExpand == "fit_on_line_else_expand"
kAppendFittingSubPartitions == "append_fitting_sub_partitions"
kAlwaysExpand == "always_expand"
kTabularAlignment == "tabular_alignment"
kAlreadyFormatted == "already_formatted"
kUninitialized == "uninitialized"

\* TokenPartitionTree node: an UnwrappedLine and the child partitions
PartitionNode(value, children) == [value |-> value, children |-> children]

\* what TraverseTree yields where the program stops on LOG(FATAL) or a CHECK
Fatal == << [fatal |-> TRUE] >>

IsFatal(lf) == Len(lf) = 1 /\ "fatal" \in DOMAIN lf[1]

\* a layout function as the driver receives it from the factory: the
\* program does not survive a failed CHECK
Checked(lf) == IF Aborted(lf) THEN Fatal ELSE lf

\* absl::FixedArray filled by std::transform: every element computed once
FixedArray(elements) == elements \o <<>>

\* the function call that always offers both arrangements
FunctionCallChoice(header, args) ==
  Choice(<< Juxtaposition(<<header, args>>),
            Stack(<<header, Indent(args, style.wrap_spaces)>>) >>)

\* the function call whose stacked arrangement leaves the args unindented
FunctionCallUnindented(header, args) ==
  LET stack_layout == Stack(<<header, args>>)
  IN IF MustWrapLF(args) THEN stack_layout
     ELSE Choice(<<Juxtaposition(<<header, args>>), stack_layout>>)

\* case kOptimalFunctionCallLayout, once header and args are known
FunctionCallLayout(header, args) ==
  LET stack_layout == Stack(<<header, Indent(args, style.wrap_spaces)>>)
  IN IF MustWrapLF(args) THEN stack_layout
     ELSE LET juxtaposed_layout == Juxtaposition(<<header, args>>)
          IN Choice(<<juxtaposed_layout, stack_layout>>)

\* a switch that stacks the children of a partition it has no case for, and
\* takes a call's first two children for its header and arguments
CombineLayoutsLeniently(subnode, layouts) ==
  LET policy == subnode.value.policy
      failed == \E i \in 1..Len(subnode.children) : IsFatal(layouts[i])
  IN IF failed THEN Fatal
     ELSE IF policy = kOptimalFunctionCallLayout
     THEN Checked(FunctionCallLayout(layouts[1], layouts[2]))
     ELSE IF policy \in {kAppendFittingSubPartitions, kFitOnLineElseExpand}
     THEN Checked(Wrap(layouts))
     ELSE Checked(Stack(layouts))

\* the switch of the lambda TraverseTree: the layout function of a
\* partition with children, from the layout functions of its children
CombineLayouts(subnode, layouts) ==
  LET policy == subnode.value.policy
      size == Len(subnode.children)
      failed == \E i \in 1..size : IsFatal(layouts[i])
  IN IF policy = kOptimalFunctionCallLayout
     THEN IF size # 2 \/ failed THEN Fatal
          ELSE Checked(FunctionCallLayout(layouts[1], layouts[2]))
     ELSE IF policy \in {kAppendFittingSubPartitions, kFitOnLineElseExpand}
     THEN IF failed THEN Fatal ELSE Checked(Wrap(layouts))
     ELSE IF policy \in {kAlwaysExpand, kTabularAlignment}
     THEN IF failed THEN Fatal ELSE Checked(Stack(layouts))
     ELSE Fatal

\* the lambda TraverseTree of OptimizeTokenPartitionTree
RECURSIVE TraverseTree(_)
TraverseTree(subnode) ==
  IF subnode.children = <<>> THEN Line(subnode.value)
  ELSE CombineLayouts(subnode,
         FixedArray([i \in 1..Len(subnode.children) |->
                       TraverseTree(subnode.children[i])]))

---------------------------------------------------------------------------
(* TreeReconstructor: from the chosen layout to flat lines *)

\* TreeReconstructor(indentation, style): no line yet, none active
TreeReconstructor(indentation) ==
  [current_indentation_spaces |-> indentation,
   unwrapped_lines |-> <<>>,
   active_unwrapped_line |-> 0]

\* FitsOnLine(uwline, style): the column where the line ends
FitsOnLine(uwline) ==
  LET final_column ==
        uwline.indentation
        + Length([tbegin |-> uwline.tbegin, tend |-> uwline.tend])
  IN [fits |-> final_column <= style.column_limit,
      final_column |-> final_column]

\* a kLine case that starts lines but never extends the active one
ReconstructLineOnce(layout_tree, tr) ==
  IF tr.active_unwrapped_line = 0
  THEN [tr EXCEPT !.unwrapped_lines =
                    Append(@, UnwrappedLine(tr.current_indentation_spaces,
                                            layout_tree.tbegin,
                                            layout_tree.tend,
                                            kAlreadyFormatted)),
                  !.active_unwrapped_line = Len(tr.unwrapped_lines) + 1]
  ELSE tr

\* case kLine of TreeReconstructor::TraverseTree
ReconstructLine(layout_tree, tr) ==
  IF tr.active_unwrapped_line = 0
  THEN LET uwline == UnwrappedLine(tr.current_indentation_spaces,
                                   layout_tree.tbegin, layout_tree.tend,
                                   kAlreadyFormatted)
       IN [tr EXCEPT !.unwrapped_lines = Append(@, uwline),
                     !.active_unwrapped_line = Len(tr.unwrapped_lines) + 1]
  ELSE [tr EXCEPT !.unwrapped_lines[tr.active_unwrapped_line].tend =
                    layout_tree.tend]

\* TreeReconstructor::TraverseTree; the indentation is restored on return
RECURSIVE ReconstructTree(_, _)
RECURSIVE ReconstructChildren(_, _, _, _)

\* a loop over the children that puts every child on a line of its own
RECURSIVE ReconstructChildrenApart(_, _, _, _)
ReconstructChildrenApart(children, i, stacked, tr) ==
  IF i > Len(children) THEN tr
  ELSE ReconstructChildrenApart(children, i + 1, stacked,
         ReconstructTree(children[i],
                         [tr EXCEPT !.active_unwrapped_line = 0]))

\* the children from index i on, each on a line of its own when 'stacked'
ReconstructChildren(children, i, stacked, tr) ==
  IF i > Len(children) THEN tr
  ELSE ReconstructChildren(children, i + 1, stacked,
         ReconstructTree(children[i],
           IF stacked THEN [tr EXCEPT !.active_unwrapped_line = 0] ELSE tr))

\* a TraverseTree whose Stack puts its later children at the current
\* indentation, whether or not a line is active when it is entered
ReconstructTreeAtCurrentIndentation(layout_tree, tr) ==
  LET entered == [tr EXCEPT !.current_indentation_spaces =
                              @ + layout_tree.indentation]
      children == layout_tree.children
      done ==
        IF layout_tree.type = kLine THEN ReconstructLine(layout_tree, entered)
        ELSE IF layout_tree.type = kJuxtaposition
        THEN ReconstructChildren(children, 1, FALSE, entered)
        ELSE IF children = <<>> THEN entered
        ELSE IF Len(children) = 1 THEN ReconstructTree(children[1], entered)
        ELSE ReconstructChildren(children, 2, TRUE,
               [ReconstructTree(children[1], entered)
                  EXCEPT !.current_indentation_spaces =
                           entered.current_indentation_spaces])
  IN [done EXCEPT !.current_indentation_spaces =
                    tr.current_indentation_spaces]

ReconstructTree(layout_tree, tr) ==
  LET entered == [tr EXCEPT !.current_indentation_spaces =
                              @ + layout_tree.indentation]
      children == layout_tree.children
      indentation ==
        IF entered.active_unwrapped_line # 0
        THEN FitsOnLine(entered.unwrapped_lines[entered.active_unwrapped_line])
               .final_column + layout_tree.spaces_before
        ELSE entered.current_indentation_spaces
      done ==
        IF layout_tree.type = kLine THEN ReconstructLine(layout_tree, entered)
        ELSE IF layout_tree.type = kJuxtaposition
        THEN ReconstructChildren(children, 1, FALSE, entered)
        ELSE IF children = <<>> THEN entered
        ELSE IF Len(children) = 1 THEN ReconstructTree(children[1], entered)
        ELSE ReconstructChildren(children, 2, TRUE,
               [ReconstructTree(children[1], entered)
                  EXCEPT !.current_indentation_spaces = indentation])
  IN [done EXCEPT !.current_indentation_spaces =
                    tr.current_indentation_spaces]

\* a rewrite of the line's tokens that keeps the spacing of the first
FormatLineTokensKeepingSpaces(tokens, uwline) ==
  [i \in 1..Len(tokens) |->
     IF i < uwline.tbegin \/ i >= uwline.tend THEN tokens[i]
     ELSE IF i = uwline.tbegin
     THEN [tokens[i] EXCEPT !.break_decision = MustWrap]
     ELSE IF tokens[i].break_decision = Undecided
     THEN [tokens[i] EXCEPT !.break_decision = MustAppend]
     ELSE tokens[i]]

\* the spacing of the tokens of one emitted line, as
\* ReplaceTokenPartitionTreeNode rewrites it
FormatLineTokens(tokens, uwline) ==
  [i \in 1..Len(tokens) |->
     IF i < uwline.tbegin \/ i >= uwline.tend THEN tokens[i]
     ELSE IF i = uwline.tbegin
     THEN [tokens[i] EXCEPT !.break_decision = MustWrap,
                            !.spaces_required = 0]
     ELSE IF tokens[i].break_decision = Undecided
     THEN [tokens[i] EXCEPT !.break_decision = MustAppend]
     ELSE tokens[i]]

\* the loop of ReplaceTokenPartitionTreeNode over unwrapped_lines[i..]
RECURSIVE FormatTokens(_, _, _)
FormatTokens(tokens, unwrapped_lines, i) ==
  IF i > Len(unwrapped_lines) THEN tokens
  ELSE FormatTokens(FormatLineTokens(tokens, unwrapped_lines[i]),
                    unwrapped_lines, i + 1)

\* TreeReconstructor::ReplaceTokenPartitionTreeNode: the node rewritten
ReplaceTokenPartitionTreeNode(tr) ==
  LET first_line == tr.unwrapped_lines[1]
      last_line == tr.unwrapped_lines[Len(tr.unwrapped_lines)]
  IN PartitionNode(
       UnwrappedLine(tr.current_indentation_spaces, first_line.tbegin,
                     last_line.tend, kOptimalFunctionCallLayout),
       [i \in 1..Len(tr.unwrapped_lines) |->
          PartitionNode(tr.unwrapped_lines[i], <<>>)])

\* the end of OptimizeTokenPartitionTree: the tree and the tokens rewritten
\* from the reconstructed lines, or left alone ('fatal') when a check
\* stopped the program before
ReplaceAndFormat(tree, layouts, layout_function, iter, tree_reconstructor) ==
  LET fatal == tree_reconstructor.unwrapped_lines = <<>>
  IN [fatal |-> fatal,
      indentation |-> tree.value.indentation,
      layouts |-> layouts,
      layout_function |-> layout_function,
      iter |-> iter,
      unwrapped_lines |-> tree_reconstructor.unwrapped_lines,
      node |-> IF fatal THEN tree
               ELSE ReplaceTokenPartitionTreeNode(tree_reconstructor),
      ftokens |-> IF fatal THEN ftokens
                  ELSE FormatTokens(ftokens,
                                    tree_reconstructor.unwrapped_lines, 1)]

\* a driver that reconstructs the layout of the first segment, wherever the
\* node is indented
ReconstructFirstSegment(tree, layouts, layout_function) ==
  LET stopped == IsFatal(layout_function) \/ layout_function = <<>>
  IN ReplaceAndFormat(tree, layouts,
       IF stopped THEN <<>> ELSE layout_function,
       IF stopped THEN 0 ELSE 1,
       IF stopped THEN TreeReconstructor(tree.value.indentation)
       ELSE ReconstructTree(layout_function[1].layout,
                            TreeReconstructor(tree.value.indentation)))

\* the lookup of the segment at the indentation of the node and the
\* reconstruction of its layout
LookupAndReconstruct(tree, layouts, layout_function) ==
  LET indentation == tree.value.indentation
      stopped == IsFatal(layout_function) \/ layout_function = <<>>
      iter == IF stopped THEN 0
              ELSE AtOrToTheLeftOf(layout_function, indentation)
      found == ~stopped /\ iter >= 1 /\ iter <= Len(layout_function)
  IN ReplaceAndFormat(tree, layouts,
       IF stopped THEN <<>> ELSE layout_function, iter,
       IF found
       THEN ReconstructTree(layout_function[iter].layout,
                            TreeReconstructor(indentation))
       ELSE TreeReconstructor(indentation))

\* the call of TraverseTree on the root, from the layouts of its children
\* (kept, with the rest, as what the call computes and leaves behind)
TraverseRoot(tree, layouts) ==
  LookupAndReconstruct(tree, layouts,
    IF tree.children = <<>> THEN Line(tree.value)
    ELSE CombineLayouts(tree, layouts))

\* OptimizeTokenPartitionTree(style, node, ftokens)
OptimizeTokenPartitionTree(tree) ==
  TraverseRoot(tree,
    FixedArray([i \in 1..Len(tree.children) |->
                  TraverseTree(tree.children[i])]))

---------------------------------------------------------------------------
(* A factory session: the caller builds layout functions bottom-up *)

\* tokens of the small sample: widths below, at and above the column limit
\* come from its ranges; the second token must wrap
SampleTokens ==
  << Token(2, 0, Undecided), Token(3, 1, MustWrap), Token(4, 2, Undecided) >>

\* tokens without spaces before them, the first one character wide: their
\* lines have widths 0, 1, 2, 3, 4, 6 and 7
NarrowTokens ==
  << Token(1, 0, Undecided), Token(2, 0, Undecided), Token(4, 0, Undecided) >>

\* lines of the test fixture, each taken as one token that starts its line:
\* "One under 30 limit (29 cols).", "10 columns" and "This line is short."
FixtureTokens ==
  << Token(29, 0, MustWrap), Token(10, 0, MustWrap), Token(19, 0, MustWrap) >>

\* the unwrapped lines a session may hand to Line: every range of the sample
\* and the empty line
SampleLines ==
  { UnwrappedLine(0, b, e, "uninitialized") :
      b \in 1..Len(SampleTokens), e \in 1..(Len(SampleTokens) + 1) }
  \cap { uwline \in [indentation : {0}, tbegin : 1..Len(SampleTokens),
                      tend : 1..(Len(SampleTokens) + 1),
                      policy : {"uninitialized"}] :
            uwline.tbegin < uwline.tend \/ uwline.tbegin = 1 }

\* indents a session passes to Indent
IndentValues == {0, style.wrap_spaces, style.column_limit}

\* coefficients of hand-written layout functions (LayoutFunction{...})
LitIntercepts == {0, 5}
LitGradients == {1, 3}

\* layout of a hand-written segment: a token-less line
LitLayout == CompositeItem(kLine, 0, FALSE)

\* number of Line leaves (segments, for a hand-written function) of an operand
Weight(lf) ==
  IF lf = <<>> THEN 0
  ELSE IF session = "literals" THEN Len(lf)
  ELSE Len(Leaves(lf[1].layout))

TotalWeight == SumSeq([i \in 1..Len(stack) |-> Weight(stack[i])])

NoCall == [op |-> "none", args |-> <<>>, k |-> 0, result |-> <<>>]

Call(op, args, k, result) ==
  [op |-> op, args |-> args, k |-> k, result |-> result]

NoRun == [phase |-> "idle"]

Init ==
  /\ \/ /\ style = SmallStyle
        /\ ftokens \in {SampleTokens, NarrowTokens}
        /\ session \in {"lines", "literals"}
     \/ /\ style = TestStyle
        /\ ftokens = FixtureTokens
        /\ session = "lines"
  /\ stack = <<>>
  /\ nops = 0
  /\ last = NoCall
  /\ status = "ok"
  /\ node = <<>>
  /\ run = NoRun

\* the top n operands, in the order they were pushed
TopArgs(n) == SubSeq(stack, Len(stack) - n + 1, Len(stack))

\* the stack with its top n operands replaced by one result
Replaced(n, result) == Append(SubSeq(stack, 1, Len(stack) - n), result)

\* factory.Line(uwline)
DoLine ==
  /\ status = "ok" /\ session = "lines" /\ nops < MaxOps
  /\ TotalWeight < MaxLeaves
  /\ \E uwline \in SampleLines :
       LET result == Line(uwline)
       IN /\ stack' = Append(stack, result)
          /\ last' = Call("Line", <<uwline>>, 0, result)
  /\ UNCHANGED <<style, ftokens, session, nops, status, node, run>>

\* LayoutFunction{...}: a hand-written function of one or two segments, as
\* the tests of Choice build them; its span tells which operand it is. Such a
\* function carries no overflow component, so a session of them applies only
\* the combinators that take costs as they are, Stack and Choice
DoLiteral ==
  /\ status = "ok" /\ session = "literals" /\ nops < MaxOps
  /\ \E n \in 1..2 :
       /\ TotalWeight + n <= MaxLeaves
       /\ \E i0 \in LitIntercepts, g0 \in LitGradients,
             i1 \in LitIntercepts, g1 \in LitGradients :
            LET span == Len(stack) + 1
                first == Segment(0, LitLayout, span, i0, g0)
                second == Segment(LitKnot, LitLayout, span, i1, g1)
                result == IF n = 1 THEN <<first>> ELSE <<first, second>>
            IN /\ (n = 1 => i1 = i0 /\ g1 = g0)
               /\ stack' = Append(stack, result)
               /\ last' = Call("Literal", <<>>, 0, result)
  /\ UNCHANGED <<style, ftokens, session, nops, status, node, run>>

\* factory.Indent(top, k)
DoIndent ==
  /\ status = "ok" /\ nops < MaxOps /\ session = "lines"
  /\ stack # <<>>
  /\ \E k \in IndentValues :
       LET lf == stack[Len(stack)]
           result == Indent(lf, k)
       IN /\ stack' = Replaced(1, result)
          /\ last' = Call("Indent", <<lf>>, k, result)
  /\ nops' = nops + 1
  /\ UNCHANGED <<style, ftokens, session, status, node, run>>

\* how many operands a variadic call may take: the call with no argument
\* does not depend on the operands held, it is made once, before any is built
Arities == IF stack = <<>> THEN {0} ELSE 1..Len(stack)

\* a variadic combinator applied to the top n operands (n = 0: the call
\* with no argument, whose empty result the caller drops)
Apply(op, n, result) ==
  /\ status = "ok" /\ nops < MaxOps
  /\ n <= Len(stack)
  /\ IF Aborted(result)
     THEN /\ status' = "fatal"
          /\ last' = Call("abort", TopArgs(n), n, <<>>)
          /\ stack' = stack
     ELSE /\ status' = status
          /\ last' = Call(op, TopArgs(n), n, result)
          /\ stack' = IF n = 0 THEN stack ELSE Replaced(n, result)
  /\ nops' = nops + 1
  /\ UNCHANGED <<style, ftokens, session, node, run>>

\* factory.Juxtaposition({...})
DoJuxtaposition ==
  /\ session = "lines"
  /\ \E n \in Arities : Apply("Juxtaposition", n, Juxtaposition(TopArgs(n)))

\* factory.Stack({...})
DoStack == \E n \in Arities : Apply("Stack", n, Stack(TopArgs(n)))

\* factory.Choice({...})
DoChoice == \E n \in Arities : Apply("Choice", n, Choice(TopArgs(n)))

\* factory.Wrap({...})
DoWrap ==
  /\ session = "lines"
  /\ \E n \in Arities : Apply("Wrap", n, Wrap(TopArgs(n)))

Next ==
  \/ DoLine
  \/ DoLiteral
  \/ DoIndent
  \/ DoJuxtaposition
  \/ DoStack
  \/ DoChoice
  \/ DoWrap

Spec == Init /\ [][Next]_vars

---------------------------------------------------------------------------
(* The driver applied to a partition tree *)

\* the spacing a token of a partition tree may come with
TokenKinds ==
  { Token(2, 1, Undecided), Token(4, 2, Undecided),
    Token(2, 1, MustWrap), Token(3, 0, MustAppend) }

\* the policies a partition comes with: the five the driver handles and one
\* it does not
Policies ==
  { kOptimalFunctionCallLayout, kFitOnLineElseExpand,
    kAppendFittingSubPartitions, kAlwaysExpand, kTabularAlignment,
    kUninitialized }

\* partition trees over the tokens b .. e-1 with at most 'depth' levels of
\* partitions above the leaves; the leaves cover the tokens in order
RECURSIVE Partitions(_, _, _)
RECURSIVE PartitionSeqs(_, _, _)

\* sequences of one or more partitions covering b .. e-1 between them
PartitionSeqs(b, e, depth) ==
  { <<p>> : p \in Partitions(b, e, depth) }
  \cup UNION { { <<p>> \o rest : p \in Partitions(b, mid, depth),
                                 rest \in PartitionSeqs(mid, e, depth) } :
               mid \in (b + 1)..(e - 1) }

Partitions(b, e, depth) ==
  { PartitionNode(UnwrappedLine(0, b, e, kUninitialized), <<>>) }
  \cup IF depth = 0 THEN {}
       ELSE { PartitionNode(UnwrappedLine(0, b, e, policy), children) :
                policy \in Policies,
                children \in { c \in PartitionSeqs(b, e, depth - 1) :
                                 Len(c) >= 2 } }

\* the trees handed to the driver: over all the tokens, or over all but the
\* first or the last of them
RootPartitions ==
  UNION { Partitions(b, e, MaxDepth) :
            b \in 1..2, e \in MaxTokens..(MaxTokens + 1) }

\* trees with a partition that holds no token between two that do
PartitionsWithEmptyLeaf ==
  { PartitionNode(UnwrappedLine(0, 1, MaxTokens + 1, policy),
      << PartitionNode(UnwrappedLine(0, 1, 2, kUninitialized), <<>>),
         PartitionNode(UnwrappedLine(0, 2, 2, kUninitialized), <<>>),
         PartitionNode(UnwrappedLine(0, 2, MaxTokens + 1, kUninitialized),
                       <<>>) >>) :
      policy \in {kAlwaysExpand, kFitOnLineElseExpand} }

\* a call whose header and whose arguments are both expanded partitions of
\* two lines each
CallOfExpandedPartitions ==
  PartitionNode(UnwrappedLine(0, 1, 5, kOptimalFunctionCallLayout),
    << PartitionNode(UnwrappedLine(0, 1, 3, kAlwaysExpand),
         << PartitionNode(UnwrappedLine(0, 1, 2, kUninitialized), <<>>),
            PartitionNode(UnwrappedLine(0, 2, 3, kUninitialized), <<>>) >>),
       PartitionNode(UnwrappedLine(0, 3, 5, kAlwaysExpand),
         << PartitionNode(UnwrappedLine(0, 3, 4, kUninitialized), <<>>),
            PartitionNode(UnwrappedLine(0, 4, 5, kUninitialized), <<>>) >>) >>)

Ready == [phase |-> "ready", passes |-> 0]

\* the tokens of the function call of the test OneLevelFunctionCall:
\* "function_fffffffffff(" and six arguments, spacing left at its default
FunctionCallTokens ==
  [i \in 1..7 |-> Token(<<21, 12, 13, 14, 16, 16, 13>>[i], 0, Undecided)]

\* its partition tree: the header and the arguments under a function call
FunctionCallTree ==
  PartitionNode(UnwrappedLine(0, 1, 8, kOptimalFunctionCallLayout),
    << PartitionNode(UnwrappedLine(0, 1, 2, kFitOnLineElseExpand), <<>>),
       PartitionNode(UnwrappedLine(0, 2, 8, kFitOnLineElseExpand),
         [i \in 1..6 |->
            PartitionNode(UnwrappedLine(0, i + 1, i + 2, kFitOnLineElseExpand),
                          <<>>)]) >>)

\* a tree of a few tokens under the small style, or the function call of
\* the test under the style of the test
DriverInit ==
  /\ \/ /\ style = SmallStyle
        /\ ftokens \in [1..MaxTokens -> TokenKinds]
        /\ \E indentation \in 0..MaxIndentation :
             \E tree \in RootPartitions :
               node = [tree EXCEPT !.value.indentation = indentation]
     \/ /\ style = SmallStyle
        /\ ftokens \in [1..MaxTokens -> TokenKinds]
        /\ node \in PartitionsWithEmptyLeaf
     \/ /\ style = SmallStyle
        /\ ftokens \in [1..4 -> TokenKinds]
        /\ node = CallOfExpandedPartitions
     \/ /\ style = TestStyle
        /\ ftokens = FunctionCallTokens
        /\ node = FunctionCallTree
  /\ session = "driver"
  /\ stack = <<>>
  /\ nops = 0
  /\ last = NoCall
  /\ status = "ok"
  /\ run = Ready

\* OptimizeTokenPartitionTree(style, &node, &ftokens)
Optimize ==
  /\ status = "ok" /\ session = "driver"
  /\ run.passes < MaxPasses
  /\ LET call == OptimizeTokenPartitionTree(node)
     IN /\ node' = call.node
        /\ ftokens' = call.ftokens
        /\ status' = IF call.fatal THEN "fatal" ELSE "ok"
        /\ run' = [phase |-> IF call.fatal THEN "fatal" ELSE "done",
                   passes |-> run.passes + 1,
                   before |-> node,
                   tokens_before |-> ftokens,
                   indentation |-> call.indentation,
                   layouts |-> call.layouts,
                   layout_function |-> call.layout_function,
                   iter |-> call.iter,
                   unwrapped_lines |-> call.unwrapped_lines]
  /\ UNCHANGED <<style, session, stack, nops, last>>

DriverNext == Optimize

DriverSpec == DriverInit /\ [][DriverNext]_vars

---------------------------------------------------------------------------
(* The reconstructor on its own: a layout tree is handed to TraverseTree,
   then the partition node is replaced *)

\* tokens of the reconstructor's fixture, with spaces between them
ReconstructorTokens ==
  << Token(2, 0, Undecided), Token(3, 1, Undecided),
     Token(4, 2, Undecided), Token(1, 1, Undecided) >>

\* LayoutTree(LayoutItem(uwline)) with SetIndentationSpaces(indentation)
LayoutLeaf(b, e, indentation) ==
  [LineItem(UnwrappedLine(0, b, e, kUninitialized))
     EXCEPT !.indentation = indentation]

\* LayoutTree(LayoutItem(type, spaces_before, false), children...) with
\* SetIndentationSpaces(indentation)
LayoutNode(type, spaces_before, indentation, children) ==
  [CompositeItem(type, spaces_before, FALSE)
     EXCEPT !.indentation = indentation, !.children = children]

\* the composite items of the samples: a Stack comes with no space before
\* it or with one, a Juxtaposition with none
CompositeItems ==
  { <<kStack, 0>>, <<kStack, 1>>, <<kJuxtaposition, 0>> }

\* layout trees over the tokens b .. e-1 with at most 'depth' levels of
\* composites above the lines, indented by the values of 'indentations';
\* the lines cover the tokens in order
RECURSIVE LayoutTrees(_, _, _, _)
RECURSIVE LayoutSeqs(_, _, _, _)

\* sequences of one or more layout trees covering b .. e-1 between them
LayoutSeqs(b, e, depth, indentations) ==
  { <<t>> : t \in LayoutTrees(b, e, depth, indentations) }
  \cup UNION { { <<t>> \o rest :
                   t \in LayoutTrees(b, mid, depth, indentations),
                   rest \in LayoutSeqs(mid, e, depth, indentations) } :
               mid \in (b + 1)..(e - 1) }

LayoutTrees(b, e, depth, indentations) ==
  { LayoutLeaf(b, e, indentation) : indentation \in indentations }
  \cup IF depth = 0 THEN {}
       ELSE { LayoutNode(item[1], item[2], indentation, children) :
                item \in CompositeItems,
                indentation \in indentations,
                children \in LayoutSeqs(b, e, depth - 1, indentations) }

\* the layout trees made of t and one empty Juxtaposition or Stack, added
\* as a child of one composite of t at any position
RECURSIVE WithEmptyComposite(_)
WithEmptyComposite(t) ==
  IF t.type = kLine THEN {}
  ELSE { [t EXCEPT !.children =
                     SubSeq(@, 1, i)
                     \o <<LayoutNode(item[1], item[2], 0, <<>>)>>
                     \o SubSeq(@, i + 1, Len(@))] :
           i \in 0..Len(t.children), item \in CompositeItems }
       \cup UNION { { [t EXCEPT !.children[i] = child] :
                        child \in WithEmptyComposite(t.children[i]) } :
                    i \in 1..Len(t.children) }

\* Stack(Juxtaposition(L1, L2), Juxtaposition(L3, L4))
StackOfJuxtapositions ==
  LayoutNode(kStack, 0, 0,
    << LayoutNode(kJuxtaposition, 0, 0,
                  <<LayoutLeaf(1, 2, 0), LayoutLeaf(2, 3, 0)>>),
       LayoutNode(kJuxtaposition, 0, 0,
                  <<LayoutLeaf(3, 4, 0), LayoutLeaf(4, 5, 0)>>) >>)

\* Juxtaposition(Stack(L1, L2), Stack(L3, L4))
JuxtapositionOfStacks ==
  LayoutNode(kJuxtaposition, 0, 0,
    << LayoutNode(kStack, 0, 0, <<LayoutLeaf(1, 2, 0), LayoutLeaf(2, 3, 0)>>),
       LayoutNode(kStack, 0, 0,
                  <<LayoutLeaf(3, 4, 0), LayoutLeaf(4, 5, 0)>>) >>)

\* the layout trees handed to the reconstructor
LayoutSamples ==
  LayoutTrees(1, MaxTokens + 1, MaxDepth, {0, WrapSpaces})
  \cup UNION { WithEmptyComposite(t) :
                 t \in LayoutTrees(1, MaxTokens + 1, MaxDepth, {0}) }
  \cup {StackOfJuxtapositions, JuxtapositionOfStacks}

\* TreeReconstructorTest: a layout tree built by hand and the node
\* TokenPartitionTree{UnwrappedLine(0, begin)} to replace
ReconstructorInit ==
  /\ style = SmallStyle
  /\ ftokens = ReconstructorTokens
  /\ session = "reconstructor"
  /\ stack \in { <<t>> : t \in LayoutSamples }
  /\ nops = 0
  /\ last = NoCall
  /\ status = "ok"
  /\ node = PartitionNode(UnwrappedLine(0, 1, 1, kUninitialized), <<>>)
  /\ run = NoRun

\* TreeReconstructor tree_reconstructor(indentation, style);
\* tree_reconstructor.TraverseTree(layout_tree)
TraverseLayout ==
  /\ session = "reconstructor" /\ status = "ok" /\ last.op = "none"
  /\ \E indentation \in 0..MaxIndentation :
       last' = Call("TraverseTree", stack, indentation,
                    ReconstructTree(stack[1], TreeReconstructor(indentation)))
  /\ UNCHANGED <<style, ftokens, session, stack, nops, status, node, run>>

\* tree_reconstructor.ReplaceTokenPartitionTreeNode(&node, &ftokens)
ReplaceNode ==
  /\ session = "reconstructor" /\ status = "ok"
  /\ last.op = "TraverseTree" /\ run = NoRun
  /\ IF last.result.unwrapped_lines = <<>>
     THEN /\ status' = "fatal"
          /\ UNCHANGED <<node, ftokens>>
     ELSE /\ status' = status
          /\ node' = ReplaceTokenPartitionTreeNode(last.result)
          /\ ftokens' = FormatTokens(ftokens, last.result.unwrapped_lines, 1)
  /\ run' = [phase |-> "replaced", tokens_before |-> ftokens]
  /\ UNCHANGED <<style, session, stack, nops, last>>

ReconstructorNext == TraverseLayout \/ ReplaceNode

ReconstructorSpec == ReconstructorInit /\ [][ReconstructorNext]_vars

---------------------------------------------------------------------------
(* The knot sweeps of the factory, one loop iteration at a time *)

\* hand-written functions of one or two segments
SweepLiterals ==
  { << Segment(0, LitLayout, 1, i0, g0) >> :
      i0 \in LitIntercepts, g0 \in LitGradients }
  \cup { << Segment(0, LitLayout, 1, i0, g0),
            Segment(LitKnot, LitLayout, 1, i1, g1) >> :
           i0 \in LitIntercepts, g0 \in LitGradients,
           i1 \in LitIntercepts, g1 \in LitGradients }

\* the Lines of the sample, and the Choices of two of them
SweepLines == { Line(uwline) : uwline \in SampleLines }

SweepChoices == { Choice(<<a, b>>) : a \in SweepLines, b \in SweepLines }

\* the argument lists swept: two functions of any kind, or three Lines
SweepInputs ==
  LET any == SweepLines \cup SweepLiterals \cup SweepChoices
  IN { <<a, b>> : a \in any, b \in any }
     \cup { <<a, b, c>> : a \in SweepLines, b \in SweepLines, c \in SweepLines }

SweepInit ==
  /\ style = SmallStyle
  /\ ftokens \in {SampleTokens, NarrowTokens}
  /\ session = "sweep"
  /\ stack \in SweepInputs
  /\ nops = 0
  /\ last = NoCall
  /\ status = "ok"
  /\ node = <<>>
  /\ run = NoRun

\* the locals of Juxtaposition(left, right) before its loop, 'right' being
\* the argument at index 'from'
JuxtapositionLocals(left, from) ==
  LET right == stack[from]
      column_r == left[1].span + right[1].layout.spaces_before
  IN [phase |-> "column", op |-> "Juxtaposition", left |-> left,
      from |-> from, segment_l |-> 1,
      segment_r |-> AtOrToTheLeftOf(right, column_r),
      column_l |-> 0, column_r |-> column_r, result |-> <<>>]

\* Choice, Stack or Juxtaposition is called with the arguments held: the
\* locals before the first iteration of its loop
EnterSweep ==
  /\ session = "sweep" /\ run = NoRun
  /\ \E op \in {"Choice", "Stack", "Juxtaposition"} :
       run' = IF op = "Choice"
              THEN [phase |-> "knot", op |-> op, current_column |-> 0,
                    next_knot |-> 0,
                    segments |-> [i \in 1..Len(stack) |-> 1],
                    last_min |-> <<1, Len(stack[1]) + 1>>, result |-> <<>>]
              ELSE IF op = "Stack"
              THEN [phase |-> "column", op |-> op, current_column |-> 0,
                    result |-> <<>>]
              ELSE JuxtapositionLocals(stack[1], 2)
  /\ UNCHANGED <<style, ftokens, session, stack, nops, last, status, node>>

\* iterators that are never moved
IteratorsAtBegin(lfs, current_column) == [i \in 1..Len(lfs) |-> 1]

\* the iterators of all functions moved to the knot at or to the left of
\* current_column
SweepIterators(lfs, current_column) ==
  [i \in 1..Len(lfs) |-> MoveToKnotAtOrToTheLeftOf(lfs[i], current_column)]

\* what a sweep leaves behind once its loop is left
Returned(op, result) ==
  /\ last' = Call(op, stack, Len(stack), result)
  /\ status' = IF Aborted(result) THEN "fatal" ELSE status

\* Choice, head of an iteration of the outer loop: the iterators are moved
\* and the next knot is found
ChoiceKnot ==
  /\ session = "sweep" /\ run.phase = "knot"
  /\ LET segments == SweepIterators(stack, run.current_column)
     IN run' = [run EXCEPT !.phase = "crossover", !.segments = segments,
                           !.next_knot = NextKnot(stack, segments, 1)]
  /\ UNCHANGED <<style, ftokens, session, stack, nops, last, status, node>>

\* Choice, one iteration of the inner loop: the cheapest segment is pushed
\* if it is a new one and the column moves to the next crossover or knot
ChoiceCrossover ==
  /\ session = "sweep" /\ run.phase = "crossover"
  /\ LET min == MinElement(stack, run.segments, run.current_column, 2, 1)
         min_it == <<min, run.segments[min]>>
         min_cost_segment == stack[min][run.segments[min]]
         pushed ==
           IF min_it # run.last_min
           THEN << Segment(run.current_column, min_cost_segment.layout,
                           min_cost_segment.span,
                           CostAt(min_cost_segment, run.current_column),
                           min_cost_segment.gradient) >>
           ELSE <<>>
         next_column ==
           NextCrossover(stack, run.segments, run.current_column, min, 1,
                         run.next_knot)
         phase == IF next_column < run.next_knot THEN "crossover"
                  ELSE IF next_column < kInfinity THEN "knot" ELSE "done"
     IN /\ run' = [run EXCEPT !.phase = phase, !.result = @ \o pushed,
                              !.last_min = min_it,
                              !.current_column = next_column]
        /\ IF phase = "done" THEN Returned("Choice", run.result \o pushed)
           ELSE UNCHANGED <<last, status>>
  /\ nops' = nops + 1
  /\ UNCHANGED <<style, ftokens, session, stack, node>>

\* Stack, one iteration of its loop
StackColumn ==
  /\ session = "sweep" /\ run.phase = "column" /\ run.op = "Stack"
  /\ LET segments == SweepIterators(stack, run.current_column)
         new_segment ==
           Segment(run.current_column,
                   StackAdopt(stack, segments, 1,
                              CompositeItem(kStack,
                                            stack[1][1].layout.spaces_before,
                                            stack[1][1].layout.must_wrap)),
                   stack[Len(stack)][1].span,
                   (Len(stack) - 1) * style.line_break_penalty
                     + SumSeq([i \in 1..Len(stack) |->
                                 CostAt(stack[i][segments[i]],
                                        run.current_column)]),
                   SumSeq([i \in 1..Len(stack) |->
                             stack[i][segments[i]].gradient]))
         next_column == NextKnot(stack, segments, 1)
         phase == IF next_column < kInfinity THEN "column" ELSE "done"
     IN /\ run' = [run EXCEPT !.phase = phase,
                              !.result = Append(@, new_segment),
                              !.current_column = next_column]
        /\ IF phase = "done"
           THEN Returned("Stack", Append(run.result, new_segment))
           ELSE UNCHANGED <<last, status>>
  /\ nops' = nops + 1
  /\ UNCHANGED <<style, ftokens, session, stack, node>>

\* Juxtaposition(left, right), one iteration of its loop; once the loop is
\* left the fold of Juxtaposition({...}) goes on with the next argument
JuxtapositionColumn ==
  /\ session = "sweep" /\ run.phase = "column" /\ run.op = "Juxtaposition"
  /\ LET left == run.left
         right == stack[run.from]
         segment_l == run.segment_l
         segment_r == run.segment_r
         column_l == run.column_l
         column_r == run.column_r
         columns_over_limit == column_r - style.column_limit
         layout_l == left[segment_l].layout
         layout_r == right[segment_r].layout
         new_segment ==
           Segment(column_l,
                   AdoptLayoutAndFlattenIfSameType(layout_r,
                     AdoptLayoutAndFlattenIfSameType(layout_l,
                       CompositeItem(kJuxtaposition, layout_l.spaces_before,
                                     layout_l.must_wrap))),
                   left[segment_l].span + right[segment_r].span
                     + layout_r.spaces_before,
                   CostAt(left[segment_l], column_l)
                     + CostAt(right[segment_r], column_r)
                     - style.over_column_limit_penalty
                         * Max(columns_over_limit, 0),
                   left[segment_l].gradient + right[segment_r].gradient
                     - (IF columns_over_limit >= 0
                        THEN style.over_column_limit_penalty ELSE 0))
         result == Append(run.result, new_segment)
         next_segment_l == segment_l + 1
         l_end == next_segment_l > Len(left)
         next_column_l ==
           IF l_end THEN kInfinity ELSE left[next_segment_l].column
         next_segment_r == segment_r + 1
         r_end == next_segment_r > Len(right)
         next_column_r ==
           IF r_end THEN kInfinity ELSE right[next_segment_r].column
     IN IF l_end /\ r_end
        THEN IF run.from < Len(stack)
             THEN /\ run' = JuxtapositionLocals(result, run.from + 1)
                  /\ UNCHANGED <<last, status>>
             ELSE /\ run' = [run EXCEPT !.phase = "done", !.result = result]
                  /\ Returned("Juxtaposition", result)
        ELSE /\ UNCHANGED <<last, status>>
             /\ IF r_end \/ (next_column_l - column_l)
                              <= (next_column_r - column_r)
                THEN LET new_column_r ==
                           next_column_l + left[next_segment_l].span
                           + layout_r.spaces_before
                     IN run' = [run EXCEPT
                                  !.result = result,
                                  !.column_l = next_column_l,
                                  !.column_r = new_column_r,
                                  !.segment_l = next_segment_l,
                                  !.segment_r =
                                    AtOrToTheLeftOf(right, new_column_r)]
                ELSE run' = [run EXCEPT
                               !.result = result,
                               !.column_r = next_column_r,
                               !.column_l = next_column_r
                                            - left[segment_l].span
                                            - layout_r.spaces_before,
                               !.segment_r = next_segment_r]
  /\ nops' = nops + 1
  /\ UNCHANGED <<style, ftokens, session, stack, node>>

SweepNext ==
  \/ EnterSweep
  \/ ChoiceKnot
  \/ ChoiceCrossover
  \/ StackColumn
  \/ JuxtapositionColumn

\* a call, once made, runs on: nothing suspends or cancels it
SweepSpec == SweepInit /\ [][SweepNext]_vars /\ WF_vars(SweepNext)

---------------------------------------------------------------------------
(* Properties of the factory *)

\* the columns at which cost curves are compared
Columns == 0..MaxColumn

Knots(lf) == { lf[i].column : i \in 1..Len(lf) }

\* the invariant of a layout function: first knot 0, knots strictly increasing
WellFormed(lf) ==
  /\ lf # <<>>
  /\ lf[1].column = 0
  /\ \A i \in 1..(Len(lf) - 1) : lf[i].column < lf[i + 1].column

\* the least of the costs of the functions lfs at column c
MinCost(lfs, c) ==
  LET costs == { CostAtLF(lfs[i], c) : i \in 1..Len(lfs) }
  IN CHOOSE m \in costs : \A n \in costs : m <= n

\* a layout function as its (column, intercept, gradient) triples
Curve(lf) ==
  [i \in 1..Len(lf) |-> <<lf[i].column, lf[i].intercept, lf[i].gradient>>]

\* a one-segment hand-written function intercept + gradient * x
Linear(intercept, gradient) ==
  << Segment(0, LitLayout, 1, intercept, gradient) >>

\* the knots of a Choice result that are knots of no input
Crossovers(lfs, result) ==
  { k \in 2..Len(result) :
      \A i \in 1..Len(lfs) : result[k].column \notin Knots(lfs[i]) }

\* C1: Choice is the pointwise minimum of its inputs at every integer
\* column; a crossover knot is the ceiling of the exact crossing column (the
\* segment it starts is still above the one it ends one column earlier, and
\* no longer above at the knot); Choice({100 + x}, {0 + 3x}) is
\* [{0, 0, 3}, {50, 150, 1}].
ChoiceIsPointwiseMinimum ==
  (last.op = "Choice" /\ Len(last.args) >= 1
   /\ \A i \in 1..Len(last.args) : WellFormed(last.args[i]))
  => /\ \A c \in Columns :
          CostAtLF(last.result, c) = MinCost(last.args, c)
     /\ \A k \in Crossovers(last.args, last.result) :
          LET c == last.result[k].column
          IN /\ CostAt(last.result[k - 1], c - 1) < CostAt(last.result[k], c - 1)
             /\ CostAt(last.result[k], c) <= CostAt(last.result[k - 1], c)
     /\ Curve(Choice(<< Linear(100, 1), Linear(0, 3) >>))
          = << <<0, 0, 3>>, <<50, 150, 1>> >>

\* a Choice of two or more hand-written functions whose result has a
\* crossover knot
ChoiceCrossoverReached ==
  /\ last.op = "Choice" /\ Len(last.args) >= 2
  /\ session = "literals"
  /\ Crossovers(last.args, last.result) # {}

\* width of an unwrapped line, from its tokens
LineWidth(uwline) ==
  SumSeq([i \in 1..(uwline.tend - uwline.tbegin) |->
            ftokens[uwline.tbegin + i - 1].len
            + (IF i = 1 THEN 0
               ELSE ftokens[uwline.tbegin + i - 1].spaces_required)])

\* C2: Line(uwline) for a line of width w: two segments at columns 0 and
\* C - w with intercept 0, span w and gradients 0 and p when w < C; one
\* segment at column 0 with intercept (w - C) * p, gradient p and span w
\* when w >= C.
LineSegments ==
  last.op = "Line" =>
    LET w == LineWidth(last.args[1])
        C == style.column_limit
        p == style.over_column_limit_penalty
        r == last.result
    IN IF w < C
       THEN /\ Len(r) = 2
            /\ r[1].column = 0 /\ r[2].column = C - w
            /\ r[1].intercept = 0 /\ r[2].intercept = 0
            /\ r[1].gradient = 0 /\ r[2].gradient = p
            /\ r[1].span = w /\ r[2].span = w
       ELSE /\ Len(r) = 1
            /\ r[1].column = 0
            /\ r[1].intercept = (w - C) * p
            /\ r[1].gradient = p
            /\ r[1].span = w

\* Line was called on a line exactly as wide as the column limit
LineAtLimitReached ==
  /\ last.op = "Line"
  /\ LineWidth(last.args[1]) = style.column_limit
  /\ Len(last.result) = 1

\* C3: Stack(F1..Fn), n >= 2: the knots of the result are the sorted union
\* of the knots of the inputs; at each result knot c the intercept is the sum
\* of the Fi.cost_at(c) plus (n - 1) * line_break_penalty and the gradient is
\* the sum of the gradients of the segments of the Fi covering c.
StackKnotsAndCosts ==
  (last.op = "Stack" /\ Len(last.args) >= 2) =>
    LET n == Len(last.args)
        r == last.result
    IN /\ \A k \in 1..(Len(r) - 1) : r[k].column < r[k + 1].column
       /\ Knots(r) = UNION { Knots(last.args[i]) : i \in 1..n }
       /\ \A k \in 1..Len(r) :
            LET c == r[k].column
            IN /\ r[k].intercept =
                    SumSeq([i \in 1..n |-> CostAtLF(last.args[i], c)])
                    + (n - 1) * style.line_break_penalty
               /\ r[k].gradient =
                    SumSeq([i \in 1..n |->
                      last.args[i][AtOrToTheLeftOf(last.args[i], c)].gradient])

\* a Stack of three functions with different knots, so that the result has
\* more knots than any input
StackUnionReached ==
  /\ last.op = "Stack" /\ Len(last.args) = 3
  /\ \A i \in 1..3 : Len(last.result) > Len(last.args[i])
  /\ \E k \in 1..Len(last.result) : last.result[k].intercept
       > 2 * style.line_break_penalty

\* lf is the layout function of a plain Line
IsLineFunction(lf) == \E uwline \in SampleLines : lf = Line(uwline)

\* C4: Juxtaposition(A, B) of Line functions A (width a) and B (width b,
\* spaces_before s): at every column x the cost is p * max(0, x + a + s + b
\* - C), the cost of the joined line of width a + s + b starting at x, and
\* every segment has span a + s + b.
JuxtapositionChargesOverflowOnce ==
  (/\ last.op = "Juxtaposition" /\ Len(last.args) = 2
   /\ IsLineFunction(last.args[1]) /\ IsLineFunction(last.args[2]))
  => LET a == last.args[1][1].span
         b == last.args[2][1].span
         s == last.args[2][1].layout.spaces_before
     IN /\ \A x \in Columns :
             CostAtLF(last.result, x)
               = style.over_column_limit_penalty
                   * Max(0, x + a + s + b - style.column_limit)
        /\ \A k \in 1..Len(last.result) : last.result[k].span = a + s + b

\* C5: Indent(F, k).cost_at(x) = F.cost_at(x + k) for every function F built
\* by the factory, every k >= 0 and every column x >= 0.
IndentIsPureShift ==
  (last.op = "Indent" /\ session = "lines") =>
    \A x \in Columns :
      CostAtLF(last.result, x) = CostAtLF(last.args[1], x + last.k)

\* the token ranges of the Line leaves of a layout, in order
LeafRanges(layout) ==
  LET leaves == Leaves(layout)
  IN [i \in 1..Len(leaves) |-> <<leaves[i].tbegin, leaves[i].tend>>]

\* the leaves of the inputs lfs[i..], input after input, each input taken
\* in the layout of one of its segments
RECURSIVE Arrangements(_, _)
Arrangements(lfs, i) ==
  IF i > Len(lfs) THEN { <<>> }
  ELSE { LeafRanges(lfs[i][k].layout) \o rest :
           k \in 1..Len(lfs[i]), rest \in Arrangements(lfs, i + 1) }

NoMustWrapAfterFirst(lfs) ==
  \A i \in 2..Len(lfs) : ~MustWrapLF(lfs[i])

---------------------------------------------------------------------------
(* Properties of the driver *)

\* segment i of lf covers column c: column_i <= c < column_(i+1), the last
\* segment covering every column from its knot on
Covers(lf, i, c) ==
  /\ lf[i].column <= c
  /\ i = Len(lf) \/ c < lf[i + 1].column

\* the flat lines of a rewritten node
FlatLines(tree) == [i \in 1..Len(tree.children) |-> tree.children[i].value]

\* C7: on a non-empty layout function whose first knot is 0 and whose knots
\* strictly increase, AtOrToTheLeftOf(c) is the one segment i with
\* column_i <= c < column_(i+1), for every column up to the largest int; on
\* the empty function it is end(); and the driver reconstructs the layout of
\* the segment that covers the indentation of the node.
SegmentLookupAndRootSelection ==
  (run.phase = "done" /\ WellFormed(run.layout_function)) =>
    LET lf == run.layout_function
        covering == CHOOSE i \in 1..Len(lf) : Covers(lf, i, run.indentation)
    IN /\ \A c \in Columns \cup {kInfinity} :
            /\ Cardinality({ i \in 1..Len(lf) : Covers(lf, i, c) }) = 1
            /\ AtOrToTheLeftOf(lf, c) \in 1..Len(lf)
            /\ Covers(lf, AtOrToTheLeftOf(lf, c), c)
       /\ AtOrToTheLeftOf(<<>>, run.indentation) = Len(<<>>) + 1
       /\ run.iter = covering
       /\ run.unwrapped_lines =
            ReconstructTree(lf[covering].layout,
                            TreeReconstructor(run.indentation)).unwrapped_lines
       /\ FlatLines(node) = run.unwrapped_lines

\* the driver looked up an indented node in a function of several segments
\* and took a segment other than the first
LaterSegmentSelected ==
  /\ run.phase = "done"
  /\ WellFormed(run.layout_function)
  /\ Len(run.layout_function) >= 3
  /\ run.indentation > 0
  /\ run.iter >= 2
  /\ FlatLines(node) = run.unwrapped_lines

\* the partitions of a tree: the node and every node below it
RECURSIVE SubPartitions(_)
SubPartitions(tree) ==
  {tree} \cup UNION { SubPartitions(tree.children[i]) :
                        i \in 1..Len(tree.children) }

\* some flat line starts at token t
LineStartsAt(lines, t) == \E i \in 1..Len(lines) : lines[i].tbegin = t

\* C8: in the flat lines OptimizeTokenPartitionTree produces, a partition
\* whose layout must wrap never shares a flat line with its predecessor; and
\* a function call whose args must wrap comes out as the stacked arrangement
\* (header, then args), whatever the costs.
MustWrapIsRespected ==
  [][ run'.phase = "done" =>
        /\ \A partition \in SubPartitions(node) :
             ( /\ partition.value.tbegin > node.value.tbegin
               /\ ~IsFatal(TraverseTree(partition))
               /\ MustWrapLF(TraverseTree(partition)) )
             => LineStartsAt(run'.unwrapped_lines, partition.value.tbegin)
        /\ ( /\ node.value.policy = kOptimalFunctionCallLayout
             /\ MustWrapLF(run'.layouts[2]) )
           => /\ run'.layout_function =
                   Stack(<< run'.layouts[1],
                            Indent(run'.layouts[2], style.wrap_spaces) >>)
              /\ \A i \in 1..Len(run'.layout_function) :
                   run'.layout_function[i].layout.type = kStack
              /\ LineStartsAt(run'.unwrapped_lines,
                              node.children[2].value.tbegin) ]_vars

\* a function call whose args must wrap was stacked although header and
\* args on one line would have cost less at the indentation of the node
StackedAgainstTheCosts ==
  /\ run.phase = "done"
  /\ run.before.value.policy = kOptimalFunctionCallLayout
  /\ MustWrapLF(run.layouts[2])
  /\ run.layout_function[run.iter].layout.type = kStack
  /\ LineStartsAt(run.unwrapped_lines, run.before.children[2].value.tbegin)
  /\ CostAtLF(Juxtaposition(run.layouts), run.indentation)
       < CostAtLF(run.layout_function, run.indentation)

\* the root was a function call and the layout the driver reconstructed is
\* a stacked one that starts a flat line at the args
StackedSelected ==
  /\ run.phase = "done"
  /\ run.before.value.policy = kOptimalFunctionCallLayout
  /\ run.layout_function[run.iter].layout.type = kStack
  /\ LineStartsAt(run.unwrapped_lines, run.before.children[2].value.tbegin)

\* the first flat line is the header at the indentation of the node, and
\* every flat line holding tokens of the args is indented by wrap_spaces more
HeaderThenIndentedArgs ==
  LET header == run.before.children[1].value
      args == run.before.children[2].value
      lines == run.unwrapped_lines
  IN /\ lines[1].tbegin = header.tbegin
     /\ lines[1].tend = header.tend
     /\ lines[1].indentation = run.indentation
     /\ \A i \in 1..Len(lines) :
          lines[i].tend > args.tbegin
          => lines[i].indentation = run.indentation + style.wrap_spaces

\* C9 as stated: whenever the stacked arrangement of a function call is the
\* one selected at the indentation of the node, the first flat line is the
\* header at that indentation and every flat line holding argument tokens
\* is at that indentation plus wrap_spaces.
StackedCallIndentsArgsByWrapSpaces ==
  StackedSelected => HeaderThenIndentedArgs

\* the header is one line, and the args are one line or lines that are not
\* themselves the header and args of a function call
FlatHeaderAndArgs ==
  LET header == run.before.children[1]
      args == run.before.children[2]
  IN /\ header.children = <<>>
     /\ args.value.policy # kOptimalFunctionCallLayout
     /\ \A i \in 1..Len(args.children) : args.children[i].children = <<>>

\* C9, for a header of one line and args without a function call of their
\* own: whenever the stacked arrangement is the one selected, the first flat
\* line is the header at the indentation of the node and every flat line
\* holding argument tokens is at that indentation plus wrap_spaces.
StackedFlatCallIndentsArgsByWrapSpaces ==
  (StackedSelected /\ FlatHeaderAndArgs) => HeaderThenIndentedArgs

\* the function call of the test, reconstructed as its header and three
\* lines of two arguments each, indented by wrap_spaces
OneLevelFunctionCallReached ==
  /\ StackedSelected /\ FlatHeaderAndArgs
  /\ style = TestStyle
  /\ run.passes = 1
  /\ run.unwrapped_lines =
       << UnwrappedLine(0, 1, 2, kAlreadyFormatted),
          UnwrappedLine(4, 2, 4, kAlreadyFormatted),
          UnwrappedLine(4, 4, 6, kAlreadyFormatted),
          UnwrappedLine(4, 6, 8, kAlreadyFormatted) >>

\* C10: after OptimizeTokenPartitionTree the children of the node are flat
\* lines whose token ranges, in order, are contiguous, do not overlap and
\* together make the token range the node had before; no token is dropped,
\* duplicated or reordered; and the node spans from the first token of the
\* first flat line to the last token of the last flat line.
TokensArePreserved ==
  run.phase = "done" =>
    LET lines == FlatLines(node)
        n == Len(lines)
    IN /\ n >= 1
       /\ \A i \in 1..n : /\ node.children[i].children = <<>>
                           /\ lines[i].tbegin <= lines[i].tend
       /\ lines[1].tbegin = run.before.value.tbegin
       /\ \A i \in 1..(n - 1) : lines[i].tend = lines[i + 1].tbegin
       /\ lines[n].tend = run.before.value.tend
       /\ node.value.tbegin = lines[1].tbegin
       /\ node.value.tend = lines[n].tend
       /\ Len(ftokens) = Len(run.tokens_before)
       /\ \A t \in 1..Len(ftokens) : ftokens[t].len = run.tokens_before[t].len

\* a tree of three leaves came out as two flat lines, one of them joining
\* two of the leaves
LeavesJoinedOnAFlatLine ==
  /\ run.phase = "done"
  /\ run.passes = 1
  /\ Len(FlatLines(node)) = 2
  /\ \E i \in 1..2 : FlatLines(node)[i].tend - FlatLines(node)[i].tbegin = 2
  /\ node.value.tend - node.value.tbegin = MaxTokens

\* token t lies on the flat line
OnLine(uwline, t) == uwline.tbegin <= t /\ t < uwline.tend

\* C11: after reconstruction the first token of every non-empty flat line
\* has break_decision must-wrap and spaces_required 0; every other token of
\* the line that was undecided is must-append, one that was must-append or
\* must-wrap keeps its decision; and no token outside the flat lines is
\* modified in the token-spacing store.
BreakDecisionsAfterReconstruction ==
  run.phase = "done" =>
    \A t \in 1..Len(ftokens) :
      LET before == run.tokens_before[t]
          lines == run.unwrapped_lines
      IN /\ (\E i \in 1..Len(lines) : lines[i].tbegin = t /\ OnLine(lines[i], t))
            => (ftokens[t].break_decision = MustWrap
                /\ ftokens[t].spaces_required = 0)
         /\ (\E i \in 1..Len(lines) : lines[i].tbegin < t /\ OnLine(lines[i], t))
            => (/\ ftokens[t].break_decision =
                    IF before.break_decision = Undecided THEN MustAppend
                    ELSE before.break_decision
                /\ ftokens[t].spaces_required = before.spaces_required)
         /\ (\A i \in 1..Len(lines) : ~OnLine(lines[i], t))
            => ftokens[t] = before
         /\ ftokens[t].len = before.len

\* flat lines were emitted that leave a token of the store out and hold,
\* after their first token, one that turns from undecided to must-append
DecisionsRewrittenReached ==
  /\ run.phase = "done" /\ run.passes = 1
  /\ \E t \in 1..Len(ftokens) :
       \A i \in 1..Len(run.unwrapped_lines) : ~OnLine(run.unwrapped_lines[i], t)
  /\ \E t \in 1..Len(ftokens), i \in 1..Len(run.unwrapped_lines) :
       /\ run.unwrapped_lines[i].tbegin < t /\ OnLine(run.unwrapped_lines[i], t)
       /\ run.tokens_before[t].break_decision = Undecided
       /\ ftokens[t].break_decision = MustAppend

\* C12: after ReplaceTokenPartitionTreeNode the rewritten node carries the
\* partition policy "already formatted", its previous children are gone and
\* its children are the emitted flat lines, in the order of emission.
RewrittenNodeIsAlreadyFormatted ==
  run.phase = "done" =>
    /\ node.value.policy = kAlreadyFormatted
    /\ Len(node.children) = Len(run.unwrapped_lines)
    /\ \A i \in 1..Len(node.children) :
         node.children[i] = PartitionNode(run.unwrapped_lines[i], <<>>)

---------------------------------------------------------------------------
(* Invariants of the functions the factory returns *)

\* the spans of the segments of lf are not all the same
SpansDiffer(lf) == \E i, j \in 1..Len(lf) : lf[i].span # lf[j].span

\* the functions a factory call was given (Line is given a line, not
\* functions)
Inputs == IF last.op \in {"Indent", "Stack", "Juxtaposition", "Choice", "Wrap"}
          THEN { last.args[i] : i \in 1..Len(last.args) }
          ELSE {}

\* the last call is one of the factory
FactoryCall ==
  last.op \in {"Line", "Indent", "Stack", "Juxtaposition", "Choice", "Wrap"}

\* the segments of lf carry the same spaces_before, as they do when they lay
\* out the same tokens
SameSpacesBefore(lf) ==
  \A i, j \in 1..Len(lf) :
    lf[i].layout.spaces_before = lf[j].layout.spaces_before

Continuous(lf) ==
  \A k \in 1..(Len(lf) - 1) :
    CostAt(lf[k], lf[k + 1].column) = lf[k + 1].intercept

\* C14: in a layout function built from Line leaves with Indent, Stack and
\* Juxtaposition only (here: one of them applied to lines), adjacent
\* segments meet at the knot between them:
\* s_k.intercept + s_k.gradient * (s_(k+1).column - s_k.column)
\* = s_(k+1).intercept.
SegmentsMeetAtKnots ==
  ( /\ last.op \in {"Line", "Indent", "Stack", "Juxtaposition"}
    /\ \A lf \in Inputs : IsLineFunction(lf) )
  => Continuous(last.result)

\* C15: in every layout function obtained by composing Line, Indent (any
\* k >= 0, also repeated), Stack, Juxtaposition, Choice and Wrap, every
\* segment has intercept >= 0 and gradient >= 0, so that the cost is never
\* negative at a column x >= 0.
CostIsNeverNegative ==
  (FactoryCall /\ session = "lines") =>
    /\ \A k \in 1..Len(last.result) :
         last.result[k].intercept >= 0 /\ last.result[k].gradient >= 0
    /\ last.result # <<>> =>
         \A x \in Columns : CostAtLF(last.result, x) >= 0

\* the variadic combinators of the factory
Variadic == {"Stack", "Juxtaposition", "Choice", "Wrap"}

\* C16: Stack, Juxtaposition, Choice and Wrap applied to no function return
\* the empty layout function, and applied to one function F return F
\* segment for segment: same columns, intercepts, gradients, spans and
\* layouts (no line-break penalty added, no node wrapped around).
IdentityLaws ==
  last.op \in Variadic =>
    /\ Len(last.args) = 0 => last.result = <<>>
    /\ Len(last.args) = 1 =>
         /\ Len(last.result) = Len(last.args[1])
         /\ \A i \in 1..Len(last.result) :
              /\ last.result[i].column = last.args[1][i].column
              /\ last.result[i].intercept = last.args[1][i].intercept
              /\ last.result[i].gradient = last.args[1][i].gradient
              /\ last.result[i].span = last.args[1][i].span
              /\ last.result[i].layout = last.args[1][i].layout

\* a Juxtaposition of the single function on the stack, which has two
\* segments or more and a line for its layout
JuxtapositionOfOneReached ==
  /\ last.op = "Juxtaposition" /\ Len(last.args) = 1
  /\ Len(last.args[1]) >= 2
  /\ last.args[1][1].layout.type = kLine
  /\ last.result = last.args[1]

\* C17: in Stack(F1..Fn) with n >= 2, every segment of the result, at
\* column c, has the span of the segment of the last function Fn that covers
\* c (also when the spans of Fn differ between its segments), and the item
\* at the root of its Stack layout has the spaces_before and must_wrap of
\* the root of F1's layout.
StackMetadata ==
  ( /\ last.op = "Stack" /\ Len(last.args) >= 2
    /\ \A lf \in Inputs : WellFormed(lf) )
  => LET F1 == last.args[1]
         Fn == last.args[Len(last.args)]
     IN \A k \in 1..Len(last.result) :
          LET segment == last.result[k]
          IN /\ segment.span = Fn[AtOrToTheLeftOf(Fn, segment.column)].span
             /\ segment.layout.type = kStack
             /\ segment.layout.spaces_before = F1[1].layout.spaces_before
             /\ segment.layout.must_wrap = F1[1].layout.must_wrap

\* C18: for two Line functions A and B whose layout roots have the same
\* spaces_before, Juxtaposition(A, B) and Juxtaposition(B, A) cost the same
\* at every column x >= 0 (their knots may differ).
JuxtapositionCommutesInCost ==
  ( /\ last.op = "Juxtaposition" /\ Len(last.args) = 2
    /\ \A lf \in Inputs : IsLineFunction(lf)
    /\ last.args[1][1].layout.spaces_before
         = last.args[2][1].layout.spaces_before )
  => LET swapped == Juxtaposition(<<last.args[2], last.args[1]>>)
     IN \A x \in Columns :
          CostAtLF(last.result, x) = CostAtLF(swapped, x)

\* the layout nodes that flatten: a composite that has children
Composite(t) == t.type \in {kStack, kJuxtaposition} /\ t.children # <<>>

\* what a node of type 'kind' holds for the sublayout it adopted: the
\* children of a sublayout of its own kind with indentation 0, in their
\* order, and any other sublayout as one child
Inlined(kind, sublayout) ==
  IF Composite(sublayout) /\ sublayout.type = kind
     /\ sublayout.indentation = 0
  THEN sublayout.children
  ELSE <<sublayout>>

\* no Stack node of t has a non-empty Stack child with indentation 0, and no
\* Juxtaposition node a non-empty Juxtaposition child with indentation 0
RECURSIVE Flattened(_)
Flattened(t) ==
  \A i \in 1..Len(t.children) :
    /\ ~( /\ Composite(t.children[i])
          /\ t.children[i].type = t.type
          /\ t.children[i].indentation = 0 )
    /\ Flattened(t.children[i])

\* the layout functions at hand: what the last factory call returned, what
\* the driver computed for the node and for its children
Produced ==
  (IF FactoryCall THEN {last.result} ELSE {})
  \cup (IF run.phase = "done"
        THEN {run.layout_function}
             \cup { run.layouts[i] : i \in 1..Len(run.layouts) }
        ELSE {})

\* the sequences of segments, one of each function of lfs
SegmentChoices(lfs) ==
  { choice \in [1..Len(lfs) -> 1..MaxColumn] :
      \A i \in 1..Len(lfs) : choice[i] <= Len(lfs[i]) }

\* the layout 'layout' of type 'kind' holds, inline and in order, what it
\* adopted from one segment of each function of lfs
AdoptedInOrder(kind, layout, lfs) ==
  \E choice \in SegmentChoices(lfs) :
    layout.children
      = Flatten([i \in 1..Len(lfs) |->
                   Inlined(kind, lfs[i][choice[i]].layout)])

\* the Stack layout 'layout' of the segment at 'column' holds, inline and in
\* order, the layouts of the segments of lfs that cover the column
StackAdoptedAt(layout, lfs, column) ==
  /\ layout.type = kStack
  /\ layout.children
       = Flatten([i \in 1..Len(lfs) |->
                    Inlined(kStack,
                            lfs[i][AtOrToTheLeftOf(lfs[i], column)].layout)])

\* some node of t has a child of its own kind with an indentation
RECURSIVE KeepsIndentedSublayout(_)
KeepsIndentedSublayout(t) ==
  \E i \in 1..Len(t.children) :
    \/ /\ Composite(t.children[i]) /\ t.children[i].type = t.type
       /\ t.children[i].indentation > 0
    \/ KeepsIndentedSublayout(t.children[i])

\* C19: in every layout tree of a segment produced by Stack or
\* Juxtaposition no Stack node has a non-empty Stack child with indentation
\* 0 and no Juxtaposition node a non-empty Juxtaposition child with
\* indentation 0; the children of an adopted sublayout of the same kind with
\* indentation 0 stand inline, in their order, where the sublayout would
\* stand, and a sublayout of the same kind with an indentation is one child.
FlatteningInvariant ==
  /\ \A lf \in Produced :
       \A k \in 1..Len(lf) : Flattened(lf[k].layout)
  /\ (last.op = "Stack" /\ Len(last.args) >= 2) =>
       \A k \in 1..Len(last.result) :
         StackAdoptedAt(last.result[k].layout, last.args,
                        last.result[k].column)
  /\ (last.op = "Juxtaposition" /\ Len(last.args) >= 2) =>
       \A k \in 1..Len(last.result) :
         /\ last.result[k].layout.type = kJuxtaposition
         /\ AdoptedInOrder(kJuxtaposition, last.result[k].layout, last.args)
  /\ ( /\ run.phase = "done"
       /\ run.before.value.policy \in {kAlwaysExpand, kTabularAlignment}
       /\ Len(run.layouts) >= 2 ) =>
       \A k \in 1..Len(run.layout_function) :
         StackAdoptedAt(run.layout_function[k].layout, run.layouts,
                        run.layout_function[k].column)
  /\ ( /\ run.phase = "done"
       /\ run.before.value.policy = kOptimalFunctionCallLayout ) =>
       \A k \in 1..Len(run.layout_function) :
         LET layout == run.layout_function[k].layout
         IN \/ /\ layout.type = kJuxtaposition
               /\ AdoptedInOrder(kJuxtaposition, layout, run.layouts)
            \/ /\ layout.type = kStack
               /\ \E choice \in SegmentChoices(run.layouts) :
                    LET header == run.layouts[1][choice[1]].layout
                        args == run.layouts[2][choice[2]].layout
                    IN layout.children
                         = Inlined(kStack, header)
                           \o << [args EXCEPT
                                    !.indentation = @ + style.wrap_spaces] >>

\* a call node whose layout stacks a header that was itself a Stack, its
\* lines now inline, over arguments that are a Stack and, indented, stay one
\* child
FlattenedAndKeptReached ==
  /\ run.phase = "done"
  /\ \E k \in 1..Len(run.layout_function) :
       LET layout == run.layout_function[k].layout
       IN /\ layout.type = kStack
          /\ Flattened(layout)
          /\ KeepsIndentedSublayout(layout)
          /\ Len(layout.children) > Len(run.layouts)
          /\ \E j \in 1..Len(run.layouts[1]) :
               /\ run.layouts[1][j].layout.type = kStack
               /\ run.layouts[1][j].layout.indentation = 0
               /\ Composite(run.layouts[1][j].layout)

\* the policies the switch of the driver has a case for
Handled ==
  { kOptimalFunctionCallLayout, kFitOnLineElseExpand,
    kAppendFittingSubPartitions, kAlwaysExpand, kTabularAlignment }

\* the policy of the partition is none the driver handles, or it is a call
\* that does not have exactly two children
Rejected(subnode) ==
  \/ subnode.value.policy \notin Handled
  \/ /\ subnode.value.policy = kOptimalFunctionCallLayout
     /\ Len(subnode.children) # 2

\* some partition of the tree, leaf or not, is one the claim rejects
RECURSIVE RejectedAnywhere(_)
RejectedAnywhere(tree) ==
  \/ Rejected(tree)
  \/ \E i \in 1..Len(tree.children) : RejectedAnywhere(tree.children[i])

\* some partition of the tree that has children is one the claim rejects
RECURSIVE RejectedAboveLeaves(_)
RejectedAboveLeaves(tree) ==
  /\ tree.children # <<>>
  /\ \/ Rejected(tree)
     \/ \E i \in 1..Len(tree.children) :
          RejectedAboveLeaves(tree.children[i])

\* the call ended in a fatal error before the reconstructor started, and
\* left the partition and the token store as they were
HaltedUntouched ==
  /\ run.phase = "fatal" /\ status = "fatal"
  /\ run.layout_function = <<>> /\ run.iter = 0
  /\ run.unwrapped_lines = <<>>
  /\ node = run.before
  /\ ftokens = run.tokens_before

\* C20 as stated: if any partition the driver visits has a policy other
\* than the five it handles, or is a call without exactly two children,
\* OptimizeTokenPartitionTree halts with a fatal error before the
\* reconstructor starts, the partition and the token store unmodified.
UnsupportedInputIsFatal ==
  (run.phase \in {"done", "fatal"} /\ RejectedAnywhere(run.before))
    => HaltedUntouched

\* C20, for the partitions that have children: if one of them has a policy
\* other than the five the driver handles, or is a call without exactly two
\* children, OptimizeTokenPartitionTree halts with a fatal error before the
\* reconstructor starts, the partition and the token store unmodified.
UnsupportedPartitionIsFatal ==
  (run.phase \in {"done", "fatal"} /\ RejectedAboveLeaves(run.before))
    => HaltedUntouched

\* a first call halted on a partition below the root, which itself is one
\* the driver handles
NestedUnsupportedReached ==
  /\ run.phase = "fatal" /\ run.passes = 1
  /\ ~Rejected(run.before)
  /\ RejectedAboveLeaves(run.before)
  /\ HaltedUntouched

\* C21: a second OptimizeTokenPartitionTree on a node the first one has
\* rewritten never formats it again: whatever the number of flat lines the
\* first pass produced (1, 2, 3 or more), the second pass ends in a fatal
\* error and leaves the node and the token store as the first pass left them.
SecondPassIsRejected ==
  run.passes = 2 =>
    /\ run.phase = "fatal" /\ status = "fatal"
    /\ node = run.before
    /\ ftokens = run.tokens_before

\* a second pass over a node of n flat lines, n other than two, is rejected
SecondPassOfOtherThanTwoLinesIsRejected ==
  (run.passes = 2 /\ Len(run.before.children) # 2) =>
    /\ run.phase = "fatal" /\ status = "fatal"
    /\ node = run.before
    /\ ftokens = run.tokens_before

\* the number of segments of the functions of lfs together
TotalSegments(lfs) == SumSeq([i \in 1..Len(lfs) |-> Len(lfs[i])])

\* C22: on inputs with first knot 0 and strictly increasing knots (spans
\* that differ between segments included), Juxtaposition(L, R) has at most
\* |L| + |R| segments, Stack(F1..Fn) at most the sum of the |Fi|, and
\* Choice(F1..Fn) at most twice that sum.
KnotCountBounds ==
  ( /\ last.op \in {"Juxtaposition", "Stack", "Choice"}
    /\ Len(last.args) >= 2
    /\ \A lf \in Inputs : lf # <<>> /\ WellFormed(lf) )
  => /\ last.op = "Juxtaposition" /\ Len(last.args) = 2 =>
          Len(last.result) <= TotalSegments(last.args)
     /\ last.op = "Stack" => Len(last.result) <= TotalSegments(last.args)
     /\ last.op = "Choice" =>
          Len(last.result) <= 2 * TotalSegments(last.args)

\* the knots of lf, in the order of its segments
KnotSeq(lf) == [i \in 1..Len(lf) |-> lf[i].column]

\* the call of scenario S3: under the style of the fixture (column_limit 40,
\* over_column_limit_penalty 100), Juxtaposition(Line of width 29, Line of
\* width 10 with spaces_before 0)
ScenarioS3 ==
  /\ style = TestStyle
  /\ last.op = "Juxtaposition" /\ Len(last.args) = 2
  /\ last.args[1] = Line(UnwrappedLine(0, 1, 2, "uninitialized"))
  /\ last.args[2] = Line(UnwrappedLine(0, 2, 3, "uninitialized"))
  /\ last.args[1][1].span = 29
  /\ last.args[2][1].span = 10 /\ last.args[2][1].layout.spaces_before = 0

\* in the result of a call, cost past the limit accrues from the first
\* column on at which the joined lines, 'width' wide, reach the column limit
OverflowFromTheLimitOn(width) ==
  \A k \in 1..Len(last.result) :
    /\ last.result[k].gradient > 0
         <=> last.result[k].column + width >= style.column_limit
    /\ last.result[k].column + width <= style.column_limit
         => last.result[k].intercept = 0

\* C23 as stated: in scenario S3 the knots of the Juxtaposition are exactly
\* at columns 0, 1, 11 and 21, and cost past the limit accrues from the
\* first column on at which the joined end reaches column_limit.
ScenarioS3FourKnots ==
  ScenarioS3 =>
    /\ KnotSeq(last.result) = <<0, 1, 11, 21>>
    /\ OverflowFromTheLimitOn(39)

\* C23 with the knots the code computes: in scenario S3 the knots of the
\* Juxtaposition are exactly at columns 0, 1 and 11, and cost past the limit
\* accrues from the first column on at which the joined end reaches
\* column_limit.
ScenarioS3Knots ==
  ScenarioS3 =>
    /\ KnotSeq(last.result) = <<0, 1, 11>>
    /\ OverflowFromTheLimitOn(39)

\* scenario S3 with the result the test expects:
\* {0, 39, 0, 0}, {1, 39, 0, 100}, {11, 39, 1000, 100}
ScenarioS3Reached ==
  /\ ScenarioS3
  /\ [i \in 1..Len(last.result) |->
        <<last.result[i].column, last.result[i].span,
          last.result[i].intercept, last.result[i].gradient>>]
       = << <<0, 39, 0, 0>>, <<1, 39, 0, 100>>, <<11, 39, 1000, 100>> >>

---------------------------------------------------------------------------
(* Properties of the reconstructor *)

\* the layout tree has no composite without children
RECURSIVE NoEmptyComposite(_)
NoEmptyComposite(t) ==
  \/ t.type = kLine
  \/ /\ t.children # <<>>
     /\ \A i \in 1..Len(t.children) : NoEmptyComposite(t.children[i])

\* the sum over the Stack nodes of t of (number of children - 1)
RECURSIVE StackBreaks(_)
StackBreaks(t) ==
  (IF t.type = kStack /\ t.children # <<>> THEN Len(t.children) - 1 ELSE 0)
  + SumSeq([i \in 1..Len(t.children) |-> StackBreaks(t.children[i])])

\* groups of lines a and b joined: the last of a continues with the first
\* of b
JoinGroups(a, b) ==
  IF a = <<>> THEN b
  ELSE IF b = <<>> THEN a
  ELSE SubSeq(a, 1, Len(a) - 1) \o <<a[Len(a)] \o b[1]>> \o Tail(b)

\* the Line leaves of t grouped by flat line: the children of a
\* Juxtaposition continue the line, each child of a Stack after the first
\* starts one
RECURSIVE LineGroups(_)
RECURSIVE JoinedGroups(_, _)
RECURSIVE StackedGroups(_, _)

JoinedGroups(children, i) ==
  IF i > Len(children) THEN <<>>
  ELSE JoinGroups(LineGroups(children[i]), JoinedGroups(children, i + 1))

StackedGroups(children, i) ==
  IF i > Len(children) THEN <<>>
  ELSE LineGroups(children[i]) \o StackedGroups(children, i + 1)

LineGroups(t) ==
  IF t.type = kLine THEN << <<t>> >>
  ELSE IF t.type = kJuxtaposition THEN JoinedGroups(t.children, 1)
  ELSE StackedGroups(t.children, 1)

\* the token ranges of the groups: from the first leaf to the last
GroupRanges(groups) ==
  [i \in 1..Len(groups) |->
     <<groups[i][1].tbegin, groups[i][Len(groups[i])].tend>>]

\* the token ranges of flat lines
LineRanges(lines) ==
  [i \in 1..Len(lines) |-> <<lines[i].tbegin, lines[i].tend>>]

\* TraverseTree has been called on a layout tree
Traversed == session = "reconstructor" /\ last.op = "TraverseTree"

\* C24: for a layout tree with a Line leaf and no empty composite,
\* TraverseTree emits 1 + (sum over the Stack nodes of (children - 1)) flat
\* lines; a Juxtaposition starts no line between its children, the first
\* child of a Stack continues the line active when the Stack is entered,
\* and each later child of a Stack starts a line.
LineStructure ==
  (Traversed /\ NoEmptyComposite(last.args[1])) =>
    LET lines == last.result.unwrapped_lines
    IN /\ Len(lines) = 1 + StackBreaks(last.args[1])
       /\ LineRanges(lines) = GroupRanges(LineGroups(last.args[1]))

\* Juxtaposition(Stack(L1, L2), Stack(L3, L4)) has given the three lines
\* L1, L2 L3 and L4
ThreeLinesOfTwoStacksReached ==
  /\ Traversed
  /\ last.args[1] = JuxtapositionOfStacks
  /\ LineRanges(last.result.unwrapped_lines) = << <<1, 2>>, <<2, 4>>, <<4, 5>> >>

\* the flat line of 'lines' that holds the token before token t
LineBefore(lines, t) ==
  CHOOSE i \in 1..Len(lines) : lines[i].tbegin < t /\ t <= lines[i].tend

\* the column at which the line that holds the token before t ended when
\* that token was its last
FinalColumnBefore(lines, t) ==
  LET line == lines[LineBefore(lines, t)]
  IN line.indentation + Length([tbegin |-> line.tbegin, tend |-> t])

\* a flat line of 'lines' starts at token t
StartsLine(lines, t) == \E i \in 1..Len(lines) : lines[i].tbegin = t

\* for every Line leaf of t, the pair of its first token and of the
\* indentation in force when it is laid out: 'base' plus the relative
\* indentations down to the leaf, where a Stack entered while a line is
\* active gives its later children the final column of that line plus its
\* spaces_before for a base
RECURSIVE IndentationsInForce(_, _, _)
IndentationsInForce(t, base, lines) ==
  LET here == base + t.indentation
      first_token == Leaves(t)[1].tbegin
      later == IF StartsLine(lines, first_token) THEN here
               ELSE FinalColumnBefore(lines, first_token) + t.spaces_before
  IN IF t.type = kLine THEN { <<t.tbegin, here>> }
     ELSE UNION { IndentationsInForce(t.children[i],
                    IF t.type = kStack /\ i >= 2 THEN later ELSE here,
                    lines) :
                  i \in 1..Len(t.children) }

\* C25: a flat line started by a Line leaf is indented by the ambient
\* indentation plus the relative indentations of the leaf and of its
\* ancestors, except that the lines started by the second and later
\* children of a Stack entered while a line is active take the final column
\* of that line plus the spaces_before of the Stack for their base; a
\* relative indentation does not reach a sibling subtree; when TraverseTree
\* returns, the current indentation is the ambient one, and it is the
\* indentation written to the rewritten partition node.
IndentationOfFlatLines ==
  (Traversed /\ NoEmptyComposite(last.args[1])) =>
    LET lines == last.result.unwrapped_lines
        in_force == IndentationsInForce(last.args[1], last.k,
                                        IF run = NoRun THEN lines ELSE <<>>)
    IN /\ run = NoRun =>
            \A i \in 1..Len(lines) :
              <<lines[i].tbegin, lines[i].indentation>> \in in_force
       /\ last.result.current_indentation_spaces = last.k
       /\ run # NoRun => node.value.indentation = last.k

\* Juxtaposition(L1, Stack(L2, L3)) at ambient indentation 1, the Stack with
\* one space before it and L3 indented by two: L3 starts a line at
\* 1 + 2 (where L1 ended) + 1 + 2 = 6, not at 1 + 2
LineBelowActiveLineReached ==
  /\ Traversed /\ run # NoRun /\ last.k = 1
  /\ LET t == last.args[1]
     IN /\ t.type = kJuxtaposition /\ t.indentation = 0
        /\ Len(t.children) = 2
        /\ t.children[1].type = kLine /\ t.children[1].indentation = 0
        /\ t.children[2].type = kStack /\ t.children[2].indentation = 0
        /\ t.children[2].spaces_before = 1
        /\ Len(t.children[2].children) = 2
        /\ t.children[2].children[1].type = kLine
        /\ t.children[2].children[1].indentation = 0
        /\ t.children[2].children[2].type = kLine
        /\ t.children[2].children[2].indentation = WrapSpaces
  /\ [i \in 1..Len(last.result.unwrapped_lines) |->
        last.result.unwrapped_lines[i].indentation] = <<1, 6>>
  /\ node.value.indentation = 1

\* the layout tree without its empty composites: every child that is a
\* composite without children is left out
RECURSIVE WithoutEmptyComposites(_)
WithoutEmptyComposites(t) ==
  LET kept == SelectSeq(t.children,
                LAMBDA child : child.type = kLine \/ child.children # <<>>)
  IN [t EXCEPT !.children =
        [i \in 1..Len(kept) |-> WithoutEmptyComposites(kept[i])]]

\* the flat lines TraverseTree gives for the layout tree t at the ambient
\* indentation
FlatLinesOf(t, indentation) ==
  ReconstructTree(t, TreeReconstructor(indentation)).unwrapped_lines

\* C26: an empty Juxtaposition or Stack added to a layout tree as a child
\* (first, middle or last child of a Juxtaposition or of a Stack, with or
\* without an active line) changes nothing: the flat lines, their token
\* ranges and their indentations are those of the tree without it.
EmptyCompositesAreIdentities ==
  (Traversed /\ ~NoEmptyComposite(last.args[1])) =>
    last.result.unwrapped_lines
      = FlatLinesOf(WithoutEmptyComposites(last.args[1]), last.k)

\* the segment of lf in force at column c
SegmentInForce(lf, c) == lf[MoveToKnotAtOrToTheLeftOf(lf, c)]

\* the inputs of least cost at column c, and among them those of least
\* gradient
Cheapest(lfs, c) ==
  { i \in 1..Len(lfs) : CostAtLF(lfs[i], c) = MinCost(lfs, c) }

CheapestAndFlattest(lfs, c) ==
  { i \in Cheapest(lfs, c) :
      \A j \in Cheapest(lfs, c) :
        SegmentInForce(lfs[i], c).gradient <= SegmentInForce(lfs[j], c).gradient }

\* C27: at every column where Choice emits a segment, the segment carries
\* the layout, span and gradient of the input of least cost there, among
\* several of the same cost of the one of least gradient, and among several
\* of the same cost and gradient of the earliest in the argument list.
ChoiceTieBreak ==
  (last.op = "Choice" /\ Len(last.args) >= 2
   /\ \A i \in 1..Len(last.args) : WellFormed(last.args[i]))
  => \A k \in 1..Len(last.result) :
       LET c == last.result[k].column
           flattest == CheapestAndFlattest(last.args, c)
           earliest == CHOOSE i \in flattest : \A j \in flattest : i <= j
           chosen == SegmentInForce(last.args[earliest], c)
       IN /\ last.result[k].layout = chosen.layout
          /\ last.result[k].span = chosen.span
          /\ last.result[k].gradient = chosen.gradient

\* the same with the latest of the inputs of the same cost and gradient
ChoiceTakesTheLatestOfTheTied ==
  (last.op = "Choice" /\ Len(last.args) >= 2
   /\ \A i \in 1..Len(last.args) : WellFormed(last.args[i]))
  => \A k \in 1..Len(last.result) :
       LET c == last.result[k].column
           flattest == CheapestAndFlattest(last.args, c)
           latest == CHOOSE i \in flattest : \A j \in flattest : i >= j
           chosen == SegmentInForce(last.args[latest], c)
       IN /\ last.result[k].layout = chosen.layout
          /\ last.result[k].span = chosen.span
          /\ last.result[k].gradient = chosen.gradient

\* the unwrapped lines of the Line leaves of a layout, in order
LinesOf(layout) ==
  LET leaves == Leaves(layout)
  IN [i \in 1..Len(leaves) |->
        UnwrappedLine(0, leaves[i].tbegin, leaves[i].tend, "uninitialized")]

\* the variadic combinator named op
Combine(op, lfs) == IF op = "Stack" THEN Stack(lfs) ELSE Juxtaposition(lfs)

\* the layout functions of a sequence of unwrapped lines
LineFunctions(uwlines) == [i \in 1..Len(uwlines) |-> Line(uwlines[i])]

\* lf is Line of a line, or op applied to the Lines of two or more lines
LineOrRunOfLines(op, lf) ==
  /\ lf # <<>>
  /\ \/ IsLineFunction(lf)
     \/ /\ Len(Leaves(lf[1].layout)) >= 2
        /\ lf = Combine(op, LineFunctions(LinesOf(lf[1].layout)))

\* the lines of the arguments of a call, those of a nested run in place
ArgumentLines(lfs) ==
  Flatten([i \in 1..Len(lfs) |-> LinesOf(lfs[i][1].layout)])

\* a call of op some argument of which is op applied to a run of lines, the
\* other arguments being lines
NestedCall(op) ==
  /\ last.op = op /\ session = "lines" /\ Len(last.args) >= 2
  /\ \A i \in 1..Len(last.args) : LineOrRunOfLines(op, last.args[i])
  /\ \E i \in 1..Len(last.args) : ~IsLineFunction(last.args[i])

\* C28: Stack of lines L1..Ln with a consecutive run of them replaced by
\* the Stack of the run is the same layout function (columns, intercepts,
\* gradients, spans and flattened layouts) as Stack(L1..Ln); the same for
\* Juxtaposition with a nested Juxtaposition of a run.
NestingInvariance ==
  \A op \in {"Stack", "Juxtaposition"} :
    NestedCall(op) =>
      last.result = Combine(op, LineFunctions(ArgumentLines(last.args)))

\* the part of it that holds: Stack with a nested Stack wherever it is
\* placed, and Juxtaposition whose nested run comes first
StackNestingInvariance ==
  /\ NestedCall("Stack") =>
       last.result = Stack(LineFunctions(ArgumentLines(last.args)))
  /\ (NestedCall("Juxtaposition") /\ ~IsLineFunction(last.args[1])) =>
       last.result = Juxtaposition(LineFunctions(ArgumentLines(last.args)))

\* a sweep is under way, or over
Sweeping == session = "sweep" /\ run # NoRun

\* an iteration of the inner loop of Choice starts at a column below the
\* next knot and ends at a greater column
ChoiceAdvances ==
  (Sweeping /\ run.phase = "crossover")
  => /\ run.current_column < run.next_knot
     /\ run'.current_column > run.current_column

\* C29: the sweep loops of Choice, Stack and Juxtaposition over non-empty
\* functions of strictly increasing knots terminate, and every iteration of
\* the inner loop of Choice moves the current column strictly to the right,
\* the next knot being strictly to the right of it too, until the column is
\* +infinity.
SweepsTerminate ==
  /\ [][ChoiceAdvances]_vars
  /\ <>(Sweeping /\ run.phase = "done")
  /\ [](Sweeping /\ run.phase = "done" /\ run.op = "Choice"
          => run.current_column = kInfinity)

\* what the sweeps return is what the factory returns
SweepsReturnTheFactoryResults ==
  (Sweeping /\ run.phase = "done")
  => run.result = (IF run.op = "Choice" THEN Choice(stack)
                   ELSE IF run.op = "Stack" THEN Stack(stack)
                   ELSE Juxtaposition(stack))

\* a Choice that moved to a crossover between two knots and has returned
ChoiceSweptThroughCrossover ==
  /\ Sweeping /\ run.phase = "done" /\ run.op = "Choice"
  /\ Crossovers(stack, run.result) # {}
  /\ \A i \in 1..Len(stack) : WellFormed(stack[i])

\* width of the flat line uwline with the tokens 'tokens': their lengths and
\* the spaces before all of them but the first
FlatLineWidth(tokens, uwline) ==
  SumSeq([i \in 1..(uwline.tend - uwline.tbegin) |->
            tokens[uwline.tbegin + i - 1].len
            + (IF i = 1 THEN 0
               ELSE tokens[uwline.tbegin + i - 1].spaces_required)])

\* cost of flat lines as emitted: the penalty for every character beyond the
\* column limit and for every line break
EmittedCost(tokens, lines) ==
  style.over_column_limit_penalty
    * SumSeq([i \in 1..Len(lines) |->
                Max(0, lines[i].indentation + FlatLineWidth(tokens, lines[i])
                       - style.column_limit)])
  + style.line_break_penalty * (Len(lines) - 1)

\* cost of the segment the driver selected, at the indentation of the node
PredictedCost ==
  CostAt(run.layout_function[run.iter], run.indentation)

\* C30: the cost of the root segment the driver selects, at the ambient
\* indentation, is over_column_limit_penalty times the number of characters
\* of the reconstructed flat lines beyond the column limit, each line at its
\* indentation with the spaces of its tokens, plus line_break_penalty times
\* the number of flat lines less one.
PredictedCostIsEmittedCost ==
  (session = "driver" /\ run.phase = "done")
  => PredictedCost = EmittedCost(run.tokens_before, run.unwrapped_lines)
====
